---- MODULE Spec2Model ----
(***************************************************************************)
(* Verification model of apiarycd: the Badger-backed entity store          *)
(* (pkg/badgerfx), the stack service and repository (internal/stacks) and  *)
(* the deployment service and repository (internal/deployments).           *)
(*                                                                         *)
(* Badger transactions are modelled at the granularity the library gives:  *)
(* db.View runs its callback against one snapshot (one atomic step);       *)
(* db.Update runs its callback against the snapshot taken at its start,    *)
(* buffering writes and tracking the keys it read, and commits later: the  *)
(* commit fails with badger.ErrConflict when a transaction committed in    *)
(* between wrote a key this one read, and otherwise applies all buffered   *)
(* writes at once.                                                         *)
(*                                                                         *)
(* Keys are tuples <<prefix, part, ...>>: the prefix is the string prefix  *)
(* of the Go key and the parts are the values concatenated after it (the   *)
(* separators and url.QueryEscape keep the parts apart, so two keys are    *)
(* equal exactly when prefix and parts are).  uuid.NewV7 is a fresh        *)
(* counter value, time.Now() reads the variable clock, a nil pointer to a  *)
(* time or an id is 0.  A Go map is [isNil, kv]: a nil map and an empty    *)
(* map are different values.                                               *)
(***************************************************************************)
EXTENDS Integers, Sequences, FiniteSets, TLC

VARIABLES db, clock, nextId, dirs, pc, req, loc, res, txn, gitcfg, sem, call, gres, listing

vars == <<db, clock, nextId, dirs, pc, req, loc, res, txn, gitcfg, sem, call, gres, listing>>

\* The state of the Git service: its configuration, the permits of its
\* semaphore in use, the call of each caller and what the last step
\* returned; and the branches of the repository with the last listing made
\* of them.
gitVars == <<gitcfg, sem, call, gres, listing>>

\* The state of the store and of the stack and deployment services.
svcVars == <<db, clock, nextId, pc, req, loc, res, txn>>

(***************************************************************************)
(* Bounds                                                                  *)
(***************************************************************************)
NumTasks == 2
MaxDeployments == 3
NumDeployStacks == 1
MaxStacks == 2
NumGitCallers == 6
MaxRetryAttempts == 2

Tasks == 1..NumTasks

NilTime == 0
NilID == 0

(***************************************************************************)
(* Go maps                                                                 *)
(***************************************************************************)
EmptyFn == [x \in {} |-> ""]

NilMap == [isNil |-> TRUE, kv |-> EmptyFn]

MkMap(f) == [isNil |-> FALSE, kv |-> f]

\* maps.Clone: a nil map clones to nil.
MapsClone(m) == m

\* maps.Copy(dst, src): for k, v := range src { dst[k] = v }.  Assigning
\* into a nil map panics, which happens exactly when src has an entry.
MapsCopyPanics(dst, src) == dst.isNil /\ DOMAIN src.kv # {}

MapsCopy(dst, src) ==
    [dst EXCEPT !.kv = [k \in DOMAIN dst.kv \cup DOMAIN src.kv |->
                          IF k \in DOMAIN src.kv THEN src.kv[k] ELSE dst.kv[k]]]

(***************************************************************************)
(* badger.Txn: snapshot reads, buffered writes, read tracking              *)
(***************************************************************************)
TxnNone == [open |-> FALSE, reads |-> {}, sets |-> EmptyFn, dels |-> {}, stale |-> FALSE]

TxnNew == [open |-> TRUE, reads |-> {}, sets |-> EmptyFn, dels |-> {}, stale |-> FALSE]

\* txn.Get: pending writes are served first, anything else is read from the
\* snapshot and tracked.
TxnHas(snap, tx, k) == k \in DOMAIN tx.sets \/ (k \notin tx.dels /\ k \in DOMAIN snap)

TxnVal(snap, tx, k) == IF k \in DOMAIN tx.sets THEN tx.sets[k] ELSE snap[k]

TxnTrack(tx, k) ==
    IF k \in DOMAIN tx.sets \/ k \in tx.dels THEN tx ELSE [tx EXCEPT !.reads = @ \cup {k}]

TxnSet(tx, k, v) ==
    [tx EXCEPT !.sets = [x \in DOMAIN tx.sets \cup {k} |-> IF x = k THEN v ELSE tx.sets[x]],
               !.dels = @ \ {k}]

TxnDelete(tx, k) ==
    [tx EXCEPT !.sets = [x \in DOMAIN tx.sets \ {k} |-> tx.sets[x]],
               !.dels = @ \cup {k}]

TxnWritten(tx) == DOMAIN tx.sets \cup tx.dels

\* The store after the commit of tx.
TxnApply(snap, tx) ==
    [k \in (DOMAIN snap \ tx.dels) \cup DOMAIN tx.sets |->
        IF k \in DOMAIN tx.sets THEN tx.sets[k] ELSE snap[k]]

\* oracle.hasConflict, seen from the committing side: every other open
\* transaction that read a key written here will fail its own commit.
MarkStale(t, tx) ==
    [u \in Tasks |->
        IF u # t /\ txn[u].open /\ txn[u].reads \cap TxnWritten(tx) # {}
        THEN [txn[u] EXCEPT !.stale = TRUE]
        ELSE IF u = t THEN TxnNone ELSE txn[u]]

(***************************************************************************)
(* stackModel (internal/stacks/models.go) and the generic repository       *)
(* (pkg/badgerfx/repository.go)                                            *)
(***************************************************************************)
prefixByID == "stack:id:"
prefixByName == "stack:name:"
prefixByStatus == "stack:status:"
prefixByLabel == "stack:label:"

StatusActive == "active"
StatusInactive == "inactive"
StatusError == "error"

\* newStackModel: a fresh id, both timestamps now, status active and no
\* sync or deploy time, whatever the draft holds.
newStackModel(draft, id, now) ==
    [id |-> id, createdAt |-> now, updatedAt |-> now,
     name |-> draft.name, description |-> draft.description,
     gitURL |-> draft.gitURL, gitBranch |-> draft.gitBranch,
     variables |-> draft.variables,
     status |-> StatusActive, lastSync |-> NilTime, lastDeploy |-> NilTime,
     labels |-> draft.labels]

nameIndex(s) == <<prefixByName, s.name>>

StorageKey(id) == <<prefixByID, id>>

StorageIndexes(s) ==
    {nameIndex(s)} \cup {<<prefixByStatus, s.status, s.id>>}
        \cup {<<prefixByLabel, k, s.labels.kv[k], s.id>> : k \in DOMAIN s.labels.kv}

\* toDomain copies every field; the result is the Stack the updater mutates.
toDomain(s) == s

\* Repository.Read
BfxRead(snap, tx, id) ==
    LET key == StorageKey(id)
        has == TxnHas(snap, tx, key)
    IN  [tx |-> TxnTrack(tx, key),
         err |-> IF has THEN "nil" ELSE "badger.ErrKeyNotFound",
         val |-> IF has THEN <<TxnVal(snap, tx, key)>> ELSE <<>>]

\* Repository.ReadByIndex: index -> primary key -> record.
BfxReadByIndex(snap, tx, index) ==
    LET has1 == TxnHas(snap, tx, index)
        tx1 == TxnTrack(tx, index)
        key == TxnVal(snap, tx, index)
        has2 == has1 /\ TxnHas(snap, tx1, key)
    IN  [tx |-> IF has1 THEN TxnTrack(tx1, key) ELSE tx1,
         err |-> IF has2 THEN "nil" ELSE "badger.ErrKeyNotFound",
         val |-> IF has2 THEN <<TxnVal(snap, tx1, key)>> ELSE <<>>]

\* Repository.CreateIndexes: every index key holds the primary key.
BfxCreateIndexes(tx, entity) ==
    LET K == StorageIndexes(entity)
    IN  [tx EXCEPT !.sets = [x \in DOMAIN tx.sets \cup K |->
                                IF x \in K THEN StorageKey(entity.id) ELSE tx.sets[x]],
                   !.dels = @ \ K]

\* Repository.DeleteIndexes
BfxDeleteIndexes(tx, entity) ==
    LET K == StorageIndexes(entity)
    IN  [tx EXCEPT !.sets = [x \in DOMAIN tx.sets \ K |-> tx.sets[x]],
                   !.dels = @ \cup K]

\* Repository.Write: indexes first, then the record under its primary key.
BfxWrite(tx, entity) == TxnSet(BfxCreateIndexes(tx, entity), StorageKey(entity.id), entity)

\* Repository.Delete
BfxDelete(snap, tx, id) ==
    LET r == BfxRead(snap, tx, id)
    IN  IF r.err # "nil" THEN [tx |-> r.tx, err |-> r.err]
        ELSE [tx |-> TxnDelete(BfxDeleteIndexes(r.tx, r.val[1]), StorageKey(id)),
              err |-> "nil"]

(***************************************************************************)
(* deploymentModel and the deployment repository                           *)
(* (internal/deployments/models.go, repository.go)                         *)
(***************************************************************************)
prefixDeploymentByID == "deployment:id:"
prefixDeploymentByStack == "deployment:stack:"

StatusPending == "pending"
StatusSuccess == "success"
StatusRolledBack == "rolled_back"

\* newDeploymentModel.  Version, GitRef, Message, Error and Logs are the
\* fixed placeholders Trigger passes and no operation reads them.
newDeploymentModel(draft, id, now) ==
    [id |-> id, createdAt |-> now, updatedAt |-> now,
     variables |-> draft.variables, status |-> draft.status,
     stackID |-> draft.stackID, startedAt |-> draft.startedAt,
     completedAt |-> draft.completedAt, previous |-> draft.previous]

\* newDeploymentUpdateModel: id and creation time of the stored record.
\* An update model whose previous pointer names the record itself.
newDeploymentUpdateModelLooped(source, draft, now) ==
    [newDeploymentModel(draft, source.id, now) EXCEPT !.createdAt = source.createdAt,
                                                      !.previous = source.id]

newDeploymentUpdateModel(source, draft, now) ==
    [newDeploymentModel(draft, source.id, now) EXCEPT !.createdAt = source.createdAt]

\* newDeployment copies every field of the model.
newDeployment(model) == model

getKey(id) == <<prefixDeploymentByID, id>>

\* The stack index key: prefix, stack id, ":" and the creation time in
\* nanoseconds.
stackIndexKey(d) == <<prefixDeploymentByStack, d.stackID, d.createdAt>>

\* createIndexes: the stack index entry holds the deployment id.
createIndexes(tx, d) == TxnSet(tx, stackIndexKey(d), d.id)

\* write: the record under its key, then the index.
write(tx, d) == createIndexes(TxnSet(tx, getKey(d.id), d), d)

\* getByID
getByID(snap, tx, id) ==
    LET has == TxnHas(snap, tx, getKey(id))
    IN  [tx |-> TxnTrack(tx, getKey(id)),
         err |-> IF has THEN "nil" ELSE "deployments.ErrNotFound",
         val |-> IF has THEN <<TxnVal(snap, tx, getKey(id))>> ELSE <<>>]

\* The keys an iterator meets under getStackPrefix(stackID).
StackPrefixKeys(snap, stackID) ==
    {k \in DOMAIN snap : k[1] = prefixDeploymentByStack /\ k[2] = stackID}

\* The keys of K in iteration order (ascending; the creation times of one
\* run have the same number of digits, so byte order is numeric order).
RECURSIVE KeysAscending(_)
KeysAscending(K) ==
    IF K = {} THEN <<>>
    ELSE LET k == CHOOSE x \in K : \A y \in K : x[3] <= y[3]
         IN  <<k>> \o KeysAscending(K \ {k})

Reverse(seq) == [i \in 1..Len(seq) |-> seq[Len(seq) + 1 - i]]

\* A success mark that sets no completion time.
MarkDeployedUnstamped(d, at) == [d EXCEPT !.status = StatusSuccess]

MarkDeployedAt(d, at) == [d EXCEPT !.status = StatusSuccess, !.completedAt = at]

\* A rollback mark that also forgets the previous pointer.
MarkRolledBackUnlinked(d, at) ==
    [d EXCEPT !.previous = NilID, !.status = StatusRolledBack, !.completedAt = at]

MarkRolledBack(d, at) == [d EXCEPT !.status = StatusRolledBack, !.completedAt = at]

IsSuccess(d) == d.status = StatusSuccess

\* A scan that takes the newest deployment whatever its status.
ScanLatestAnyStatus(snap, keys) ==
    IF keys = <<>> THEN <<>>
    ELSE getByID(snap, TxnNew, snap[Head(keys)]).val

\* GetLatestByStack with the predicate of Trigger and Rollback: a reverse
\* scan from the end of the stack prefix that stops at the first deployment
\* satisfying it; an index entry without its record ends the scan with an
\* error, and no result is ErrNotFound in every case.
RECURSIVE ScanLatest(_, _)
ScanLatest(snap, keys) ==
    IF keys = <<>> THEN <<>>
    ELSE LET r == getByID(snap, TxnNew, snap[Head(keys)])
         IN  IF r.err # "nil" THEN <<>>
             ELSE IF IsSuccess(newDeployment(r.val[1])) THEN r.val
             ELSE ScanLatest(snap, Tail(keys))

GetLatestByStack(snap, stackID) ==
    LET found == ScanLatest(snap, Reverse(KeysAscending(StackPrefixKeys(snap, stackID))))
    IN  [err |-> IF found = <<>> THEN "deployments.ErrNotFound" ELSE "nil",
         val |-> IF found = <<>> THEN <<>> ELSE <<newDeployment(found[1])>>]

\* Repository.ListByStack: forward scan of the stack prefix, one getByID
\* per index entry, all in one read transaction.
RECURSIVE ScanList(_, _)
ScanList(snap, keys) ==
    IF keys = <<>> THEN [err |-> "nil", val |-> <<>>]
    ELSE LET r == getByID(snap, TxnNew, snap[Head(keys)])
             rest == ScanList(snap, Tail(keys))
         IN  IF r.err # "nil" THEN [err |-> r.err, val |-> <<>>]
             ELSE IF rest.err # "nil" THEN [err |-> rest.err, val |-> <<newDeployment(r.val[1])>> \o rest.val]
             ELSE [err |-> "nil", val |-> <<newDeployment(r.val[1])>> \o rest.val]

RepoListByStack(snap, stackID) == ScanList(snap, KeysAscending(StackPrefixKeys(snap, stackID)))

\* Repository.GetByID of the stack repository, as Service.Get returns it.
StackGetByID(snap, id) ==
    LET r == BfxRead(snap, TxnNew, id)
    IN  [err |-> r.err, val |-> IF r.err = "nil" THEN <<toDomain(r.val[1])>> ELSE <<>>]

(***************************************************************************)
(* The Git service (internal/git/service.go): configuration, requests and  *)
(* the state of a call                                                     *)
(***************************************************************************)
GitCallers == 1..NumGitCallers

\* NewService, line 49, and the retry loops, lines 184 and 313.
DefaultMaxConcurrent == 5
DefaultRetryAttempts == 3

\* The zero Config: its PerformanceConfig, and the default key and token of
\* its AuthConfig.
ZeroConfig ==
    [MaxConcurrentOperations |-> 0, RetryAttempts |-> 0, MinDiskSpaceBytes |-> 0,
     DefaultPrivateKey |-> "", DefaultToken |-> ""]

\* A request without an Authenticator (Auth == nil), and the fields of
\* SSHAuth and HTTPSAuth.
AuthNone ==
    [kind |-> "none", PrivateKeyPath |-> "", Token |-> "", Username |-> "", Password |-> ""]

\* syscall.Statfs on the parent of the directory returns an error.
StatfsFailed == [failed |-> TRUE, available |-> 0]

\* Statfs is what syscall.Statfs answers for the parent of Directory while
\* the call runs.
GitReqNone ==
    [RetryAttempts |-> 0, op |-> "none", Directory |-> <<>>, Timeout |-> FALSE,
     Auth |-> AuthNone, Statfs |-> StatfsFailed]

\* A caller outside a call.
CallNone ==
    [pc |-> "idle", req |-> GitReqNone, ctxDone |-> FALSE, elapsed |-> FALSE,
     timerFired |-> FALSE, retryAttempts |-> 0, attempt |-> 0, errs |-> <<>>,
     slept |-> 0, lastErr |-> "nil"]

\* What the last step returned: nothing.
GitResNone ==
    [req |-> GitReqNone, err |-> "none", retryAttempts |-> 0, errs |-> <<>>,
     slept |-> 0, caller |-> 0, cause |-> "nil"]

\* The zero BranchFilterRequest; a Pattern is the sequence of its characters.
FilterReqNone ==
    [Pattern |-> <<>>, RemoteOnly |-> FALSE, LocalOnly |-> FALSE,
     By |-> "", Order |-> "", Limit |-> 0, Offset |-> 0]

\* The zero BranchCreateRequest; the names of branches are sequences of
\* characters, and the empty BaseBranch stands for the current HEAD.
CreateReqNone == [Path |-> <<>>, Name |-> <<>>, BaseBranch |-> <<>>, Checkout |-> FALSE]

\* No CreateBranch has just returned.
CreatedNone == [req |-> CreateReqNone, err |-> "none", info |-> <<>>]

\* The branch HEAD names in a repository made by git init.
InitialBranch == <<"m">>

\* A repository without branches of which no listing was made: branches is
\* what GetBranches returns, req the last BranchFilterRequest and out what
\* GetBranchesFiltered returned for it; head is the branch HEAD names, and
\* created what the CreateBranch that has just returned was asked and
\* answered.
ListingNone ==
    [req |-> FilterReqNone, branches |-> <<>>, out |-> <<>>, returned |-> FALSE,
     head |-> InitialBranch, created |-> CreatedNone]

\* The Git service with no call in progress.
GitIdle ==
    /\ gitcfg = ZeroConfig
    /\ sem = 0
    /\ call = [c \in GitCallers |-> CallNone]
    /\ gres = GitResNone
    /\ listing = ListingNone

(***************************************************************************)
(* Tasks: each inbound call runs on its own task, req holding its request; *)
(* a task at "done" may start the next call.  res is the response the last *)
(* step returned, with the task and the request it answers, and ResNone    *)
(* when the last step returned nothing.                                    *)
(***************************************************************************)
LocNone ==
    [now |-> NilTime, variables |-> NilMap, previous |-> <<>>, d |-> <<>>,
     at |-> "", stack |-> <<>>, latest |-> <<>>,
     stackVariables |-> NilMap, current |-> <<>>, gitErr |-> "nil"]


DraftNone ==
    [name |-> "", description |-> "", gitURL |-> "", gitBranch |-> "",
     variables |-> NilMap, labels |-> NilMap]

MutNone ==
    [name |-> "", description |-> "", gitURL |-> "", status |-> "", lastSync |-> NilTime,
     labels |-> NilMap, kind |-> "none"]

\* ids and owners belong to a direct call of the deployment repository: the
\* deployments to update and, for each, the stack id its updater assigns
\* (NilID when the updater leaves the stack id alone).
ReqNone ==
    [draft |-> DraftNone, variables |-> NilMap, stackID |-> NilID,
     op |-> "none", mut |-> MutNone, ids |-> <<>>, owners |-> <<>>]

ResNone == [req |-> ReqNone, err |-> "none", task |-> 0, ret |-> <<>>]

\* Task t answers the request rq and is ready for a new call.
Respond(t, rq, err, ret) ==
    /\ pc' = [pc EXCEPT ![t] = "done"]
    /\ res' = [req |-> rq, err |-> err, task |-> t, ret |-> ret]
    /\ loc' = [loc EXCEPT ![t] = LocNone]
    /\ req' = [req EXCEPT ![t] = ReqNone]

Return(t, err, ret) == Respond(t, req[t], err, ret)

\* db.Update whose callback returned nil: the buffered writes of tx become
\* visible at once, unless a key it read was written since it started.
CommitOK(t) == ~txn[t].stale

CommitEffect(t) ==
    IF CommitOK(t)
    THEN /\ db' = TxnApply(db, txn[t])
         /\ txn' = MarkStale(t, txn[t])
    ELSE /\ db' = db
         /\ txn' = [txn EXCEPT ![t] = TxnNone]

(***************************************************************************)
(* Service.Trigger (internal/deployments/service.go)                       *)
(***************************************************************************)
StackVarChoices ==
    {NilMap, MkMap(EmptyFn), MkMap([k \in {"TAG"} |-> "v1"]),
     MkMap([k \in {"TAG", "ENV"} |-> IF k = "TAG" THEN "v1" ELSE "prod"])}

ReqVarChoices == {NilMap, MkMap(EmptyFn), MkMap([k \in {"TAG"} |-> "v2"])}

\* The variables used where the claims are not about the variables.
DeployStackVariables == MkMap([k \in {"TAG", "ENV"} |-> IF k = "TAG" THEN "v1" ELSE "prod"])

DeployReqVarChoices == {MkMap([k \in {"TAG"} |-> "v2"])}

DeployStackIDs == 1..NumDeployStacks

\* A stack id no stack record has.
MissingStackID == NumDeployStacks + 1

TriggersInFlight == Cardinality({u \in Tasks : pc[u] \in {"tr_latest", "tr_cget", "tr_create"}})

\* variables := maps.Clone(stack.Variables); maps.Copy(variables, req.Variables)
MergeVariables(stackVariables, reqVariables) ==
    LET variables == MapsClone(stackVariables)
    IN  [variables |-> MapsCopy(variables, reqVariables),
         stackVariables |-> stackVariables,
         panics |-> MapsCopyPanics(variables, reqVariables)]

\* line 105: the stack is resolved.
TriggerGetStack(t, stackID, reqVariables) ==
    /\ pc[t] = "done"
    /\ nextId.deployment + TriggersInFlight <= MaxDeployments
    /\ LET rq == [ReqNone EXCEPT !.op = "trigger", !.stackID = stackID,
                                 !.variables = reqVariables]
           r == StackGetByID(db, stackID)
       IN  IF r.err # "nil"
           THEN Respond(t, rq, r.err, <<>>)
           ELSE /\ pc' = [pc EXCEPT ![t] = "tr_latest"]
                /\ req' = [req EXCEPT ![t] = rq]
                /\ loc' = [loc EXCEPT ![t] = [LocNone EXCEPT !.stack = r.val]]
                /\ res' = ResNone
    /\ UNCHANGED <<db, clock, nextId, dirs, txn>>
    /\ UNCHANGED gitVars

\* lines 111-132: the latest success deployment, the merged variables and
\* the start time.
TriggerLatest(t) ==
    /\ pc[t] = "tr_latest"
    /\ LET stack == loc[t].stack[1]
           r == GetLatestByStack(db, stack.id)
           m == MergeVariables(stack.variables, req[t].variables)
       IN  IF m.panics
           THEN Return(t, "panic", <<>>)
           ELSE /\ pc' = [pc EXCEPT ![t] = "tr_cget"]
                /\ loc' = [loc EXCEPT ![t].latest = r.val,
                                       ![t].variables = m.variables,
                                       ![t].stackVariables = m.stackVariables,
                                       ![t].now = clock]
                /\ res' = ResNone
                /\ UNCHANGED <<req>>
    /\ UNCHANGED <<db, clock, nextId, dirs, txn>>
    /\ UNCHANGED gitVars

\* create, line 37: the stack is read again.
TriggerCreateGet(t) ==
    /\ pc[t] = "tr_cget"
    /\ LET r == StackGetByID(db, req[t].stackID)
       IN  IF r.err # "nil"
           THEN Return(t, r.err, <<>>)
           ELSE /\ pc' = [pc EXCEPT ![t] = "tr_create"]
                /\ res' = ResNone
                /\ UNCHANGED <<req, loc>>
    /\ UNCHANGED <<db, clock, nextId, dirs, txn>>
    /\ UNCHANGED gitVars

\* The draft of lines 133-145.
TriggerDraft(t) ==
    [variables |-> loc[t].variables, status |-> StatusPending,
     stackID |-> loc[t].stack[1].id, startedAt |-> loc[t].now, completedAt |-> NilTime,
     previous |-> IF loc[t].latest = <<>> THEN NilID ELSE loc[t].latest[1].id]

\* create, line 42: Repository.Create writes the record and its index in
\* one transaction that reads nothing.
TriggerCreate(t) ==
    /\ pc[t] = "tr_create"
    /\ LET model == newDeploymentModel(TriggerDraft(t), nextId.deployment, clock)
           tx == write(TxnNew, model)
       IN  /\ db' = TxnApply(db, tx)
           /\ txn' = MarkStale(t, tx)
           /\ loc' = [loc EXCEPT ![t].d = <<newDeployment(model)>>]
    /\ nextId' = [nextId EXCEPT !.deployment = @ + 1]
    /\ pc' = [pc EXCEPT ![t] = "tr_sleep"]
    /\ res' = ResNone
    /\ UNCHANGED <<clock, dirs, req>>
    /\ UNCHANGED gitVars

\* line 156: time.Sleep(time.Second).
TriggerSleep(t) ==
    /\ pc[t] = "tr_sleep"
    /\ clock' = clock + 1
    /\ pc' = [pc EXCEPT ![t] = "tr_upd"]
    /\ res' = ResNone
    /\ UNCHANGED <<db, nextId, dirs, req, loc, txn>>
    /\ UNCHANGED gitVars

\* An updater that also assigns the stack id owner, unless owner is NilID.
SetOwner(d, owner) == IF owner = NilID THEN d ELSE [d EXCEPT !.stackID = owner]

\* Repository.Update, up to the commit, with an updater that marks the
\* deployment deployed and assigns the stack id owner.
RepoUpdateOwned(snap, id, owner, now) ==
    LET r == getByID(snap, TxnNew, id)
    IN  IF r.err # "nil" THEN [tx |-> r.tx, err |-> r.err]
        ELSE LET old == r.val[1]
                 deployment == SetOwner(MarkDeployedAt(newDeployment(old), now), owner)
             IN  IF deployment.stackID # old.stackID
                 THEN [tx |-> r.tx, err |-> "cannot change deployment StackID"]
                 ELSE [tx |-> write(r.tx, newDeploymentUpdateModel(old, deployment, now)),
                       err |-> "nil"]

\* Repository.Update with the updater of Trigger, up to the commit.
RepoUpdateDeployment(snap, id, now) == RepoUpdateOwned(snap, id, NilID, now)

\* lines 158-159: the deployment is marked deployed.
TriggerUpdate(t) ==
    /\ pc[t] = "tr_upd"
    /\ LET u == RepoUpdateDeployment(db, loc[t].d[1].id, clock)
       IN  IF u.err # "nil"
           THEN /\ Return(t, u.err, <<>>)
                /\ txn' = txn
           ELSE /\ pc' = [pc EXCEPT ![t] = "tr_commit"]
                /\ txn' = [txn EXCEPT ![t] = u.tx]
                /\ res' = ResNone
                /\ UNCHANGED <<req, loc>>
    /\ UNCHANGED <<db, clock, nextId, dirs>>
    /\ UNCHANGED gitVars

\* What Trigger returns at line 172: the variable d assigned at line 133.
TriggerResult(t) == loc[t].d

\* The commit of the update and lines 163-172.
TriggerCommit(t) ==
    /\ pc[t] = "tr_commit"
    /\ CommitEffect(t)
    /\ IF CommitOK(t)
       THEN Return(t, "nil", TriggerResult(t))
       ELSE Return(t, "badger.ErrConflict", <<>>)
    /\ UNCHANGED <<clock, nextId, dirs>>
    /\ UNCHANGED gitVars

(***************************************************************************)
(* Service.Rollback and Repository.UpdateDual                              *)
(***************************************************************************)
\* lines 178-193: the latest success deployment and its previous pointer.
RollbackLatest(t, stackID) ==
    /\ pc[t] = "done"
    /\ LET rq == [ReqNone EXCEPT !.op = "rollback", !.stackID = stackID]
           r == GetLatestByStack(db, stackID)
       IN  IF r.err # "nil"
           THEN Respond(t, rq, r.err, <<>>)
           ELSE IF r.val[1].previous = NilID
           THEN Respond(t, rq, "deployments.ErrNotFound", <<>>)
           ELSE /\ pc' = [pc EXCEPT ![t] = "rb_prev"]
                /\ req' = [req EXCEPT ![t] = rq]
                /\ loc' = [loc EXCEPT ![t] = [LocNone EXCEPT !.latest = r.val]]
                /\ res' = ResNone
    /\ UNCHANGED <<db, clock, nextId, dirs, txn>>
    /\ UNCHANGED gitVars

\* line 195: the previous deployment is read.
RollbackPrevious(t) ==
    /\ pc[t] = "rb_prev"
    /\ LET r == getByID(db, TxnNew, loc[t].latest[1].previous)
       IN  IF r.err # "nil"
           THEN Return(t, r.err, <<>>)
           ELSE /\ pc' = [pc EXCEPT ![t] = "rb_dual"]
                /\ loc' = [loc EXCEPT ![t].previous = <<newDeployment(r.val[1])>>]
                /\ res' = ResNone
                /\ UNCHANGED <<req>>
    /\ UNCHANGED <<db, clock, nextId, dirs, txn>>
    /\ UNCHANGED gitVars

\* A dual update that writes the first record and leaves the second as read.
UpdateDualFirstOnly(snap, first, second, now) ==
    LET r1 == getByID(snap, TxnNew, first)
        r2 == getByID(snap, r1.tx, second)
    IN  IF r1.err # "nil" THEN [tx |-> r1.tx, err |-> r1.err]
        ELSE IF r2.err # "nil" THEN [tx |-> r2.tx, err |-> r2.err]
        ELSE [tx |-> write(r2.tx,
                           newDeploymentUpdateModel(r1.val[1],
                                                    MarkRolledBack(newDeployment(r1.val[1]), now),
                                                    now)),
              err |-> "nil"]

\* Repository.UpdateDual, up to the commit, with an updater that marks the
\* first deployment rolled back and the second deployed, and assigns them
\* the stack ids o1 and o2: both records are read, updated, checked and
\* written in the same transaction.
UpdateDualOwned(snap, first, second, o1, o2, now) ==
    LET r1 == getByID(snap, TxnNew, first)
        r2 == getByID(snap, r1.tx, second)
    IN  IF r1.err # "nil" THEN [tx |-> r1.tx, err |-> r1.err]
        ELSE IF r2.err # "nil" THEN [tx |-> r2.tx, err |-> r2.err]
        ELSE LET oldFirst == r1.val[1]
                 oldSecond == r2.val[1]
                 firstDeployment == SetOwner(MarkRolledBack(newDeployment(oldFirst), now), o1)
                 secondDeployment == SetOwner(MarkDeployedAt(newDeployment(oldSecond), now), o2)
             IN  IF firstDeployment.stackID # oldFirst.stackID
                    \/ secondDeployment.stackID # oldSecond.stackID
                 THEN [tx |-> r2.tx, err |-> "cannot change deployment StackID"]
                 ELSE [tx |-> write(write(r2.tx,
                                          newDeploymentUpdateModel(oldFirst, firstDeployment, now)),
                                    newDeploymentUpdateModel(oldSecond, secondDeployment, now)),
                       err |-> "nil"]

\* Repository.UpdateDual with the updater of Rollback, up to the commit.
UpdateDual(snap, first, second, now) == UpdateDualOwned(snap, first, second, NilID, NilID, now)

\* lines 203-213: the dual update is run.
RollbackUpdateDual(t) ==
    /\ pc[t] = "rb_dual"
    /\ LET u == UpdateDual(db, loc[t].latest[1].id, loc[t].previous[1].id, clock)
       IN  IF u.err # "nil"
           THEN /\ Return(t, u.err, <<>>)
                /\ txn' = txn
           ELSE /\ pc' = [pc EXCEPT ![t] = "rb_commit"]
                /\ txn' = [txn EXCEPT ![t] = u.tx]
                /\ res' = ResNone
                /\ UNCHANGED <<req, loc>>
    /\ UNCHANGED <<db, clock, nextId, dirs>>
    /\ UNCHANGED gitVars

\* What Rollback returns at line 218: the records read at lines 178 and 195.
RollbackResult(t) == loc[t].latest \o loc[t].previous

\* The commit of the dual update and lines 213-218.
RollbackCommit(t) ==
    /\ pc[t] = "rb_commit"
    /\ CommitEffect(t)
    /\ IF CommitOK(t)
       THEN Return(t, "nil", RollbackResult(t))
       ELSE Return(t, "badger.ErrConflict", <<>>)
    /\ UNCHANGED <<clock, nextId, dirs>>
    /\ UNCHANGED gitVars

\* A direct call of Repository.Update (owners of length 1) or of
\* Repository.UpdateDual (length 2), up to the commit.
RepositoryUpdate(t, ids, owners) ==
    /\ pc[t] = "done"
    /\ LET rq == [ReqNone EXCEPT !.op = "repository.update", !.ids = ids, !.owners = owners]
           u == IF Len(ids) = 1
                THEN RepoUpdateOwned(db, ids[1], owners[1], clock)
                ELSE UpdateDualOwned(db, ids[1], ids[2], owners[1], owners[2], clock)
       IN  IF u.err # "nil"
           THEN /\ Respond(t, rq, u.err, <<>>)
                /\ txn' = txn
           ELSE /\ pc' = [pc EXCEPT ![t] = "rp_commit"]
                /\ req' = [req EXCEPT ![t] = rq]
                /\ txn' = [txn EXCEPT ![t] = u.tx]
                /\ res' = ResNone
                /\ UNCHANGED <<loc>>
    /\ UNCHANGED <<db, clock, nextId, dirs>>
    /\ UNCHANGED gitVars

\* The commit of that call.
RepositoryCommit(t) ==
    /\ pc[t] = "rp_commit"
    /\ CommitEffect(t)
    /\ Return(t, IF CommitOK(t) THEN "nil" ELSE "badger.ErrConflict", <<>>)
    /\ UNCHANGED <<clock, nextId, dirs>>
    /\ UNCHANGED gitVars

\* Service.ListByStack: one read transaction.
ListByStack(t, stackID) ==
    /\ pc[t] = "done"
    /\ LET r == RepoListByStack(db, stackID)
       IN  Respond(t, [ReqNone EXCEPT !.op = "list", !.stackID = stackID], r.err, r.val)
    /\ UNCHANGED <<db, clock, nextId, dirs, txn>>
    /\ UNCHANGED gitVars

(***************************************************************************)
(* The deployment service over a store that holds NumDeployStacks stacks   *)
(***************************************************************************)
StackDraftOf(name, variables) == [DraftNone EXCEPT !.name = name, !.variables = variables]

StackNameOf(id) == IF id = 1 THEN "web" ELSE IF id = 2 THEN "api" ELSE "db"

\* The store after stacks 1..n were created, stack 1 with variables v1 and
\* the others with variables v2.
RECURSIVE StoreWithStacks(_, _, _)
StoreWithStacks(n, v1, v2) ==
    IF n = 0 THEN [k \in {} |-> ""]
    ELSE TxnApply(StoreWithStacks(n - 1, v1, v2),
                  BfxWrite(TxnNew,
                           newStackModel(StackDraftOf(StackNameOf(n), IF n = 1 THEN v1 ELSE v2),
                                         n, 1)))

InitStore(v1) ==
    /\ db = StoreWithStacks(NumDeployStacks, v1, NilMap)
    /\ clock = 1
    /\ nextId = [stack |-> NumDeployStacks + 1, deployment |-> 1]
    /\ dirs = {}
    /\ pc = [t \in Tasks |-> "done"]
    /\ req = [t \in Tasks |-> ReqNone]
    /\ loc = [t \in Tasks |-> LocNone]
    /\ res = ResNone
    /\ txn = [t \in Tasks |-> TxnNone]
    /\ GitIdle

InitDeploy == InitStore(DeployStackVariables)

NextDeploy ==
    \E t \in Tasks :
        \/ \E id \in DeployStackIDs \cup {MissingStackID}, rv \in DeployReqVarChoices :
               TriggerGetStack(t, id, rv)
        \/ TriggerLatest(t)
        \/ TriggerCreateGet(t)
        \/ TriggerCreate(t)
        \/ TriggerSleep(t)
        \/ TriggerUpdate(t)
        \/ TriggerCommit(t)
        \/ \E id \in DeployStackIDs : RollbackLatest(t, id)
        \/ RollbackPrevious(t)
        \/ RollbackUpdateDual(t)
        \/ RollbackCommit(t)
        \/ \E id \in DeployStackIDs : ListByStack(t, id)

SpecDeploy == InitDeploy /\ [][NextDeploy]_vars

(***************************************************************************)
(* The deployment repository called directly by one caller, with updaters  *)
(* that assign a stack id, over the deployments that Trigger creates       *)
(***************************************************************************)
DeploymentIDs == 1..MaxDeployments

OwnerChoices == {NilID, MissingStackID} \cup DeployStackIDs

UpdateCalls ==
    {<<<<id>>, <<o>>>> : id \in DeploymentIDs, o \in OwnerChoices}
        \cup {<<<<p[1], p[2]>>, <<o1, o2>>>> :
                  p \in {q \in DeploymentIDs \X DeploymentIDs : q[1] # q[2]},
                  o1 \in OwnerChoices, o2 \in OwnerChoices}

NextRepository ==
    \/ \E id \in DeployStackIDs : TriggerGetStack(1, id, NilMap)
    \/ TriggerLatest(1)
    \/ TriggerCreateGet(1)
    \/ TriggerCreate(1)
    \/ TriggerSleep(1)
    \/ TriggerUpdate(1)
    \/ TriggerCommit(1)
    \/ \E c \in UpdateCalls : RepositoryUpdate(1, c[1], c[2])
    \/ RepositoryCommit(1)

SpecRepository == InitDeploy /\ [][NextRepository]_vars

(***************************************************************************)
(* One caller triggering deployments, over every pair of a stack variable  *)
(* map and a request variable map                                          *)
(***************************************************************************)
InitTrigger == \E v1 \in StackVarChoices : InitStore(v1)

NextTrigger ==
    \/ \E id \in DeployStackIDs, rv \in ReqVarChoices : TriggerGetStack(1, id, rv)
    \/ TriggerLatest(1)
    \/ TriggerCreateGet(1)
    \/ TriggerCreate(1)
    \/ TriggerSleep(1)
    \/ TriggerUpdate(1)
    \/ TriggerCommit(1)

SpecTrigger == InitTrigger /\ [][NextTrigger]_vars

(***************************************************************************)
(* The stack repository (internal/stacks/repository.go)                    *)
(***************************************************************************)
\* The updaters the callers pass, as data: the field a PATCH changes, the
\* error mark and the sync stamp of Service.Update and Service.Create.
ApplyMutation(mut, stack) ==
    CASE mut.kind = "name" -> [stack EXCEPT !.name = mut.name]
      [] mut.kind = "description" -> [stack EXCEPT !.description = mut.description]
      [] mut.kind = "gitURL" -> [stack EXCEPT !.gitURL = mut.gitURL]
      [] mut.kind = "labels" -> [stack EXCEPT !.labels = mut.labels]
      [] mut.kind = "status" -> [stack EXCEPT !.status = mut.status]
      [] mut.kind = "sync" ->
            [stack EXCEPT !.lastSync = mut.lastSync,
                          !.status = IF @ = StatusError THEN StatusActive ELSE @]
      [] OTHER -> stack

\* Repository.Create, up to the commit: the name index is read, and the
\* record and its indexes are written when no record answers to the name.
RepoCreate(snap, draft, id, now) ==
    LET model == newStackModel(draft, id, now)
        r == BfxReadByIndex(snap, TxnNew, nameIndex(model))
    IN  IF r.err = "nil"
        THEN [tx |-> r.tx, err |-> "stacks.ErrConflict", val |-> <<>>]
        ELSE IF r.err # "badger.ErrKeyNotFound"
        THEN [tx |-> r.tx, err |-> r.err, val |-> <<>>]
        ELSE [tx |-> BfxWrite(r.tx, model), err |-> "nil", val |-> <<toDomain(model)>>]

\* Repository.Update, up to the commit: the stored record is read, the
\* updater applied to its domain copy, a new model built from the draft part
\* of the result with the stored id and creation time, the indexes of the
\* old record deleted and the new model written.
RepoUpdate(snap, id, mut, now) ==
    LET r == BfxRead(snap, TxnNew, id)
    IN  IF r.err # "nil" THEN [tx |-> r.tx, err |-> r.err]
        ELSE LET old == r.val[1]
                 stack == ApplyMutation(mut, toDomain(old))
                 model == [newStackModel(stack, old.id, now) EXCEPT !.createdAt = old.createdAt]
             IN  [tx |-> BfxWrite(BfxDeleteIndexes(r.tx, old), model), err |-> "nil"]

\* A delete that removes the record and leaves its index entries.
RepoDeleteRecordOnly(snap, id) ==
    LET r == BfxRead(snap, TxnNew, id)
    IN  IF r.err # "nil" THEN [tx |-> r.tx, err |-> r.err]
        ELSE [tx |-> TxnDelete(r.tx, StorageKey(id)), err |-> "nil"]

\* Repository.Delete, up to the commit.
RepoDelete(snap, id) == BfxDelete(snap, TxnNew, id)

(***************************************************************************)
(* The working directories and the Git adapter                             *)
(* (internal/stacks/git_adapter.go, internal/git/service.go)               *)
(***************************************************************************)
GoodURL == "https://git.example/ok.git"
BadURL == "https://git.example/missing.git"

\* The remote answers a clone of the url.
Cloneable(url) == url = GoodURL

\* pathBuilder.BuildPath: one directory per stack id.
BuildPath(id) == <<"repos", id>>

\* The directory os.MkdirTemp creates.
TempDir == <<"tmp", "git-validation">>

\* git Service.Clone on the directories fs: rejected when the directory
\* exists, failed when the remote does not answer, and otherwise the
\* directory holds the clone.
GitServiceClone(fs, url, directory) ==
    IF directory \in fs
    THEN [err |-> "git.ErrRepositoryAlreadyExists", fs |-> fs]
    ELSE IF Cloneable(url)
    THEN [err |-> "nil", fs |-> fs \cup {directory}]
    ELSE [err |-> "git.ErrCloneFailed", fs |-> fs]

\* A validation that leaves its temporary directory behind.
ValidateRepositoryKeepsTemp(fs, url) ==
    LET r == GitServiceClone(fs \cup {TempDir}, url, TempDir)
    IN  [err |-> r.err, fs |-> r.fs]

\* gitAdapter.ValidateRepository: the temporary directory is created, the
\* clone into it attempted, and the directory removed on return.
ValidateRepository(fs, url) ==
    LET r == GitServiceClone(fs \cup {TempDir}, url, TempDir)
    IN  [err |-> r.err, fs |-> r.fs \ {TempDir}]

\* gitAdapter.RepositoryExists
RepositoryExists(fs, directory) == directory \in fs

\* Service.hasGitConfigChanged, on the fields of the model.
hasGitConfigChanged(old, new) == old.gitURL # new.gitURL \/ old.gitBranch # new.gitBranch

\* The part of a stack hasGitConfigChanged reads.
GitConfig(stack) == [gitURL |-> stack.gitURL, gitBranch |-> stack.gitBranch]

(***************************************************************************)
(* Service.Create, Update and Delete (internal/stacks/service.go)          *)
(***************************************************************************)
CreatesInFlight == Cardinality({u \in Tasks : pc[u] = "cr_begin"})

\* Service.Create, lines 31-38, with the answer v of the validation: its
\* error is returned, and otherwise the call goes on to Repository.Create.
CreateValidated(t, draft, v) ==
    /\ pc[t] = "done"
    /\ nextId.stack + CreatesInFlight <= MaxStacks
    /\ LET rq == [ReqNone EXCEPT !.op = "create", !.draft = draft]
       IN  /\ dirs' = v.fs
           /\ IF v.err # "nil"
              THEN Respond(t, rq, v.err, <<>>)
              ELSE /\ pc' = [pc EXCEPT ![t] = "cr_begin"]
                   /\ req' = [req EXCEPT ![t] = rq]
                   /\ res' = ResNone
                   /\ UNCHANGED <<loc>>
    /\ UNCHANGED <<db, clock, nextId, txn>>
    /\ UNCHANGED gitVars

\* Service.Create, lines 31-38: the repository is validated when the draft
\* has a URL.
CreateValidate(t, draft) ==
    CreateValidated(t, draft, IF draft.gitURL # "" THEN ValidateRepository(dirs, draft.gitURL)
                              ELSE [err |-> "nil", fs |-> dirs])

\* Service.Create, lines 31-38, over the GitService interface: the
\* implementation answers the validation with verr.
CreateValidateAny(t, draft, verr) ==
    CreateValidated(t, draft, [err |-> IF draft.gitURL # "" THEN verr ELSE "nil", fs |-> dirs])

\* Service.Create, line 40: Repository.Create runs its transaction.
CreateBegin(t) ==
    /\ pc[t] = "cr_begin"
    /\ LET c == RepoCreate(db, req[t].draft, nextId.stack, clock)
       IN  IF c.err # "nil"
           THEN /\ Return(t, c.err, <<>>)
                /\ UNCHANGED <<txn, nextId>>
           ELSE /\ pc' = [pc EXCEPT ![t] = "cr_commit"]
                /\ txn' = [txn EXCEPT ![t] = c.tx]
                /\ loc' = [loc EXCEPT ![t].stack = c.val]
                /\ nextId' = [nextId EXCEPT !.stack = @ + 1]
                /\ res' = ResNone
                /\ UNCHANGED <<req>>
    /\ UNCHANGED <<db, clock, dirs>>
    /\ UNCHANGED gitVars

\* Service.Get, lines 75-85: the stack as the repository returns it, or the
\* repository's error.
StackGet(t, id) ==
    /\ pc[t] = "done"
    /\ LET r == StackGetByID(db, id)
       IN  Respond(t, [ReqNone EXCEPT !.op = "get", !.stackID = id], r.err, r.val)
    /\ UNCHANGED <<db, clock, nextId, dirs, txn>>
    /\ UNCHANGED gitVars

\* Service.Update, lines 104-108: the current stack is read; of it, the
\* caller will use the Git configuration.
UpdateGet(t, id, mut) ==
    /\ pc[t] = "done"
    /\ LET rq == [ReqNone EXCEPT !.op = "update", !.stackID = id, !.mut = mut]
           r == StackGetByID(db, id)
       IN  IF r.err # "nil"
           THEN Respond(t, rq, r.err, <<>>)
           ELSE /\ pc' = [pc EXCEPT ![t] = "up_begin"]
                /\ req' = [req EXCEPT ![t] = rq]
                /\ loc' = [loc EXCEPT ![t] = [LocNone EXCEPT !.current = <<GitConfig(r.val[1])>>]]
                /\ res' = ResNone
    /\ UNCHANGED <<db, clock, nextId, dirs, txn>>
    /\ UNCHANGED gitVars

\* The stack and the updater of the Repository.Update a task is about to
\* run: the caller's (line 110), the error mark (lines 134, 146), or the
\* sync stamp (line 156; Create, line 62).
UpdateTarget(t) == IF pc[t] = "cr_stamp" THEN loc[t].stack[1].id ELSE req[t].stackID

UpdateMutation(t) ==
    CASE pc[t] = "up_begin" -> req[t].mut
      [] pc[t] = "up_err" -> [MutNone EXCEPT !.kind = "status", !.status = StatusError]
      [] OTHER -> [MutNone EXCEPT !.kind = "sync", !.lastSync = clock]

\* What the caller does when Repository.Update or Repository.Delete has
\* returned, with the error err, at the position p.
AfterRepo(t, p, err) ==
    CASE p = "cr_commit" ->
            IF err # "nil" THEN Return(t, err, <<>>)
            ELSE IF req[t].draft.gitURL = "" THEN Return(t, "nil", loc[t].stack)
            ELSE /\ pc' = [pc EXCEPT ![t] = "cr_clone"]
                 /\ res' = ResNone
                 /\ UNCHANGED <<req, loc>>
      [] p = "cr_cleanup" -> Return(t, loc[t].gitErr, <<>>)
      [] p = "cr_stamp" -> Return(t, "nil", loc[t].stack)
      [] p = "up_begin" ->
            IF err # "nil" THEN Return(t, err, <<>>)
            ELSE /\ pc' = [pc EXCEPT ![t] = "up_get2"]
                 /\ res' = ResNone
                 /\ UNCHANGED <<req, loc>>
      [] p = "up_err" -> Return(t, loc[t].gitErr, <<>>)
      [] p = "up_stamp" -> Return(t, "nil", <<>>)
      [] OTHER -> Return(t, err, <<>>)

\* Repository.Update runs its transaction up to the commit.
RepoUpdateBegin(t) ==
    /\ pc[t] \in {"up_begin", "up_err", "up_stamp", "cr_stamp"}
    /\ LET u == RepoUpdate(db, UpdateTarget(t), UpdateMutation(t), clock)
       IN  IF u.err # "nil"
           THEN /\ AfterRepo(t, pc[t], u.err)
                /\ txn' = txn
           ELSE /\ pc' = [pc EXCEPT ![t] = "commit"]
                /\ txn' = [txn EXCEPT ![t] = u.tx]
                /\ loc' = [loc EXCEPT ![t].at = pc[t]]
                /\ res' = ResNone
                /\ UNCHANGED <<req>>
    /\ UNCHANGED <<db, clock, nextId, dirs>>
    /\ UNCHANGED gitVars

\* Service.Delete, lines 173-177: the stack is read for the cleanup; a
\* failure to read it is logged and the deletion goes on.
DeleteGet(t, id) ==
    /\ pc[t] = "done"
    /\ LET r == StackGetByID(db, id)
           cleanup == /\ r.err = "nil"
                      /\ r.val[1].gitURL # ""
                      /\ RepositoryExists(dirs, BuildPath(id))
       IN  /\ pc' = [pc EXCEPT ![t] = IF cleanup THEN "del_rm" ELSE "del_begin"]
           /\ req' = [req EXCEPT ![t] = [ReqNone EXCEPT !.op = "delete", !.stackID = id]]
           /\ loc' = [loc EXCEPT ![t] = LocNone]
    /\ res' = ResNone
    /\ UNCHANGED <<db, clock, nextId, dirs, txn>>
    /\ UNCHANGED gitVars

\* A removal whose failure ends the Delete with that failure.
DeleteRemoveOrFail(t, removed) ==
    /\ pc[t] = "del_rm"
    /\ dirs' = IF removed THEN dirs \ {BuildPath(req[t].stackID)} ELSE dirs
    /\ IF removed
       THEN /\ pc' = [pc EXCEPT ![t] = "del_begin"]
            /\ res' = ResNone
            /\ UNCHANGED <<req, loc>>
       ELSE Return(t, "remove failed", <<>>)
    /\ UNCHANGED <<db, clock, nextId, txn>>
    /\ UNCHANGED gitVars

\* Service.Delete, lines 183-187: os.RemoveAll removes the working
\* directory or fails; the failure is logged and the deletion goes on.
DeleteRemove(t, removed) ==
    /\ pc[t] = "del_rm"
    /\ dirs' = IF removed THEN dirs \ {BuildPath(req[t].stackID)} ELSE dirs
    /\ loc' = [loc EXCEPT ![t].gitErr = IF removed THEN "nil" ELSE "remove failed"]
    /\ pc' = [pc EXCEPT ![t] = "del_begin"]
    /\ res' = ResNone
    /\ UNCHANGED <<db, clock, nextId, req, txn>>
    /\ UNCHANGED gitVars

\* Repository.Delete runs its transaction up to the commit: for
\* Service.Delete (line 191) or as the cleanup of Service.Create (line 54).
RepoDeleteBegin(t) ==
    /\ pc[t] \in {"del_begin", "cr_cleanup"}
    /\ LET id == IF pc[t] = "cr_cleanup" THEN loc[t].stack[1].id ELSE req[t].stackID
           d == RepoDelete(db, id)
       IN  IF d.err # "nil"
           THEN /\ AfterRepo(t, pc[t], d.err)
                /\ txn' = txn
           ELSE /\ pc' = [pc EXCEPT ![t] = "commit"]
                /\ txn' = [txn EXCEPT ![t] = d.tx]
                /\ loc' = [loc EXCEPT ![t].at = pc[t]]
                /\ res' = ResNone
                /\ UNCHANGED <<req>>
    /\ UNCHANGED <<db, clock, nextId, dirs>>
    /\ UNCHANGED gitVars

\* The commit of a stack repository transaction and the caller's next lines.
StackCommit(t) ==
    /\ pc[t] \in {"cr_commit", "commit"}
    /\ CommitEffect(t)
    /\ AfterRepo(t, IF pc[t] = "commit" THEN loc[t].at ELSE pc[t],
                 IF CommitOK(t) THEN "nil" ELSE "badger.ErrConflict")
    /\ UNCHANGED <<clock, nextId, dirs>>
    /\ UNCHANGED gitVars

\* Service.Update, lines 116-124: the updated stack is read and the Git
\* operation chosen.
UpdateGetUpdated(t) ==
    /\ pc[t] = "up_get2"
    /\ LET r == StackGetByID(db, req[t].stackID)
       IN  IF r.err # "nil"
           THEN Return(t, r.err, <<>>)
           ELSE IF hasGitConfigChanged(loc[t].current[1], r.val[1]) /\ r.val[1].gitURL # ""
           THEN /\ pc' = [pc EXCEPT ![t] =
                            IF RepositoryExists(dirs, BuildPath(r.val[1].id))
                            THEN "up_pull" ELSE "up_clone"]
                /\ loc' = [loc EXCEPT ![t].stack = r.val]
                /\ res' = ResNone
                /\ UNCHANGED <<req>>
           ELSE Return(t, "nil", <<>>)
    /\ UNCHANGED <<db, clock, nextId, dirs, txn>>
    /\ UNCHANGED gitVars

\* gitSvc.Clone into the working directory of the stack: Service.Create
\* line 51, Service.Update line 143.
GitClone(t) ==
    /\ pc[t] \in {"cr_clone", "up_clone"}
    /\ LET stack == loc[t].stack[1]
           r == GitServiceClone(dirs, stack.gitURL, BuildPath(stack.id))
       IN  /\ dirs' = r.fs
           /\ loc' = [loc EXCEPT ![t].gitErr = r.err]
           /\ pc' = [pc EXCEPT ![t] =
                       IF pc[t] = "cr_clone"
                       THEN (IF r.err # "nil" THEN "cr_cleanup" ELSE "cr_stamp")
                       ELSE (IF r.err # "nil" THEN "up_err" ELSE "up_stamp")]
    /\ res' = ResNone
    /\ UNCHANGED <<db, clock, nextId, req, txn>>
    /\ UNCHANGED gitVars

\* gitSvc.Pull in the working directory, Service.Update line 131: it fails
\* when the directory is gone, and otherwise as the remote decides.
GitPull(t, remoteOK) ==
    /\ pc[t] = "up_pull"
    /\ LET err == IF ~RepositoryExists(dirs, BuildPath(req[t].stackID))
                  THEN "git.ErrRepositoryNotFound"
                  ELSE IF remoteOK THEN "nil" ELSE "git.ErrPullFailed"
       IN  /\ loc' = [loc EXCEPT ![t].gitErr = err]
           /\ pc' = [pc EXCEPT ![t] = IF err # "nil" THEN "up_err" ELSE "up_stamp"]
    /\ res' = ResNone
    /\ UNCHANGED <<db, clock, nextId, dirs, req, txn>>
    /\ UNCHANGED gitVars

(***************************************************************************)
(* The stack service under concurrent callers, from an empty store: the    *)
(* callers create, patch the name or the labels, and delete                *)
(***************************************************************************)
StackNames == {"web", "api"}

LabelChoices == {NilMap, MkMap([k \in {"env"} |-> "prod"])}

StackDrafts ==
    {[DraftNone EXCEPT !.name = n, !.gitURL = u] : n \in StackNames, u \in {"", GoodURL}}

StackIDs == 1..MaxStacks

Mutations ==
    {[MutNone EXCEPT !.kind = "name", !.name = n] : n \in StackNames}
        \cup {[MutNone EXCEPT !.kind = "labels", !.labels = l] : l \in LabelChoices}

InitStacks ==
    /\ db = [k \in {} |-> ""]
    /\ clock = 1
    /\ nextId = [stack |-> 1, deployment |-> 1]
    /\ dirs = {}
    /\ pc = [t \in Tasks |-> "done"]
    /\ req = [t \in Tasks |-> ReqNone]
    /\ loc = [t \in Tasks |-> LocNone]
    /\ res = ResNone
    /\ txn = [t \in Tasks |-> TxnNone]
    /\ GitIdle

NextStacks ==
    \E t \in Tasks :
        \/ \E draft \in StackDrafts : CreateValidate(t, draft)
        \/ CreateBegin(t)
        \/ \E id \in StackIDs, mut \in Mutations : UpdateGet(t, id, mut)
        \/ RepoUpdateBegin(t)
        \/ UpdateGetUpdated(t)
        \/ \E id \in StackIDs : DeleteGet(t, id)
        \/ RepoDeleteBegin(t)
        \/ StackCommit(t)

SpecStacks == InitStacks /\ [][NextStacks]_vars

(***************************************************************************)
(* One caller that also patches the repository URL, so that the Git        *)
(* operations of Service.Update and Service.Delete run                     *)
(***************************************************************************)
SyncDrafts == {[DraftNone EXCEPT !.name = "web", !.gitURL = u] : u \in {"", GoodURL}}

SyncMutations ==
    {[MutNone EXCEPT !.kind = "gitURL", !.gitURL = u] : u \in {"", GoodURL, BadURL}}
        \cup {[MutNone EXCEPT !.kind = "description", !.description = "edited"]}

NextSync ==
    \/ \E draft \in SyncDrafts : CreateValidate(1, draft)
    \/ CreateBegin(1)
    \/ \E id \in StackIDs : StackGet(1, id)
    \/ \E id \in StackIDs, mut \in SyncMutations : UpdateGet(1, id, mut)
    \/ RepoUpdateBegin(1)
    \/ UpdateGetUpdated(1)
    \/ GitClone(1)
    \/ \E remoteOK \in BOOLEAN : GitPull(1, remoteOK)
    \/ \E id \in StackIDs : DeleteGet(1, id)
    \/ \E removed \in BOOLEAN : DeleteRemove(1, removed)
    \/ RepoDeleteBegin(1)
    \/ StackCommit(1)

SpecSync == InitStacks /\ [][NextSync]_vars

(***************************************************************************)
(* Concurrent callers of Create, Update and Delete that also patch the     *)
(* repository URL or the description.  Between the step that chooses a Git operation and the  *)
(* step GitClone, GitPull or DeleteRemove, a task is inside its call of    *)
(* gitSvc.Clone, gitSvc.Pull or gitSvc.RemoveRepository.                   *)
(***************************************************************************)
SharedMutations ==
    {[MutNone EXCEPT !.kind = "gitURL", !.gitURL = u] : u \in {GoodURL, BadURL}}
        \cup {[MutNone EXCEPT !.kind = "description", !.description = "edited"]}

NextShared ==
    \E t \in Tasks :
        \/ \E draft \in SyncDrafts : CreateValidate(t, draft)
        \/ CreateBegin(t)
        \/ \E id \in StackIDs, mut \in SharedMutations : UpdateGet(t, id, mut)
        \/ RepoUpdateBegin(t)
        \/ UpdateGetUpdated(t)
        \/ GitClone(t)
        \/ \E remoteOK \in BOOLEAN : GitPull(t, remoteOK)
        \/ \E id \in StackIDs : DeleteGet(t, id)
        \/ \E removed \in BOOLEAN : DeleteRemove(t, removed)
        \/ RepoDeleteBegin(t)
        \/ StackCommit(t)

SpecShared == InitStacks /\ [][NextShared]_vars

(***************************************************************************)
(* Service.Create over the GitService interface (internal/stacks/domain.go *)
(* lines 110-125): the validation passes or fails as the implementation    *)
(* decides, the clone runs as git Service.Clone does, and a second caller  *)
(* renames and relabels the stacks meanwhile                               *)
(***************************************************************************)
ValidationAnswers == {"nil", "repository validation failed"}

InterfaceDrafts == {[DraftNone EXCEPT !.name = "web", !.gitURL = u] : u \in {GoodURL, BadURL}}

NextInterface ==
    \E t \in Tasks :
        \/ \E draft \in InterfaceDrafts, verr \in ValidationAnswers :
               CreateValidateAny(t, draft, verr)
        \/ CreateBegin(t)
        \/ GitClone(t)
        \/ \E id \in StackIDs, mut \in Mutations : UpdateGet(t, id, mut)
        \/ RepoUpdateBegin(t)
        \/ UpdateGetUpdated(t)
        \/ RepoDeleteBegin(t)
        \/ StackCommit(t)

SpecInterface == InitStacks /\ [][NextInterface]_vars

(***************************************************************************)
(* The Git service: Clone and Pull                                         *)
(*                                                                         *)
(* Each caller runs one call at a time.  A call acquires a permit of the   *)
(* service's weighted semaphore, prepares the operation, runs the retry    *)
(* loop and returns, releasing the permit as it returns (the deferred      *)
(* releaseOperationLock).  The caller's context may be cancelled at any    *)
(* moment of a call; the Timeout of a request is a duration: elapsed says  *)
(* that it has passed since the call was made and timerFired that the      *)
(* context derived by context.WithTimeout is done.  An attempt is one call *)
(* of git.PlainCloneContext or worktree.PullContext, taken as one step     *)
(* with the outcome the remote, or a done context, gives it; errs is the   *)
(* error of every attempt made so far.                                     *)
(***************************************************************************)
\* NewService: the size of the semaphore.
NewService(config) ==
    IF config.MaxConcurrentOperations <= 0 THEN DefaultMaxConcurrent
    ELSE config.MaxConcurrentOperations

\* An Acquire that takes a permit when the semaphore is full.
SemCanAcquireOver(cur, size) == cur <= size

\* semaphore.Weighted.Acquire(ctx, 1) takes a permit when one is free.
SemCanAcquire(cur, size) == cur + 1 <= size

\* The directory of the requests.
GitDirectory == BuildPath(1)

\* lines 180-186: the request's retry attempts, the configured ones, or 3.
ResolveRetryAttempts(rq, config) ==
    IF rq.RetryAttempts # 0 THEN rq.RetryAttempts
    ELSE IF config.RetryAttempts # 0 THEN config.RetryAttempts
    ELSE DefaultRetryAttempts

\* The context the attempts run under is done.
CtxDone(c) == call[c].ctxDone \/ call[c].timerFired

\* The sentinel a failed loop wraps: ErrCloneFailed or ErrPullFailed.
LoopFailed(op) == IF op = "clone" THEN "git.ErrCloneFailed" ELSE "git.ErrPullFailed"

\* A loop that gives up one attempt early.
IsLastAttemptEarly(attempt, retryAttempts) == attempt + 1 >= retryAttempts

\* line 199: the attempt was the last one.
IsLastAttempt(attempt, retryAttempts) == attempt = retryAttempts

\* A private key file that ssh.NewPublicKeysFromFile loads, and one that it
\* does not.
GoodKey == "/keys/id_ed25519"
BadKey == "/keys/missing"

KeyLoads(path) == path = GoodKey

\* buildSSHAuth: the error it returns, "nil" when it returns the keys.
buildSSHAuth(auth, config) ==
    LET privateKeyPath == IF auth.PrivateKeyPath = "" THEN config.DefaultPrivateKey
                          ELSE auth.PrivateKeyPath
    IN  IF privateKeyPath = "" THEN "SSH private key path is required"
        ELSE IF ~KeyLoads(privateKeyPath) THEN "failed to load SSH private key"
        ELSE "nil"

\* buildHTTPSAuth: the error it returns, "nil" when it returns a BasicAuth.
buildHTTPSAuth(auth, config) ==
    IF auth.Token # "" THEN "nil"
    ELSE IF auth.Username # "" /\ auth.Password # "" THEN "nil"
    ELSE IF config.DefaultToken # "" THEN "nil"
    ELSE "HTTPS authentication requires token or username/password"

\* buildAuth for a request that has an Authenticator.
buildAuth(auth, config) ==
    CASE auth.kind = "ssh" -> buildSSHAuth(auth, config)
      [] auth.kind = "https" -> buildHTTPSAuth(auth, config)
      [] OTHER -> "unsupported authentication type"

\* lines 158-165 and 291-298: the authentication is set up when the request
\* has an Authenticator.
SetUpAuth(rq, config) == IF rq.Auth.kind = "none" THEN "nil" ELSE buildAuth(rq.Auth, config)

\* A disk space check that refuses when the space cannot be queried.
checkDiskSpaceFailClosed(config, statfs) ==
    IF config.MinDiskSpaceBytes <= 0 THEN "nil"
    ELSE IF statfs.failed \/ config.MinDiskSpaceBytes > statfs.available
    THEN "git.ErrDiskSpace"
    ELSE "nil"

\* checkDiskSpace: the error it returns.
checkDiskSpace(config, statfs) ==
    IF config.MinDiskSpaceBytes <= 0 THEN "nil"
    ELSE IF statfs.failed THEN "nil"
    ELSE IF config.MinDiskSpaceBytes > statfs.available THEN "git.ErrDiskSpace"
    ELSE "nil"

\* A call returns err wrapping cause after the attempts errs; the deferred
\* release gives the permit back when the call held one.
GitReturn(c, holds, errs, err, cause) ==
    /\ call' = [call EXCEPT ![c] = CallNone]
    /\ gres' = [req |-> call[c].req, err |-> err,
                retryAttempts |-> call[c].retryAttempts, errs |-> errs,
                slept |-> call[c].slept, caller |-> c, cause |-> cause]
    /\ sem' = IF holds THEN sem - 1 ELSE sem

\* Clone, lines 123-134, and Pull, lines 234-238: a call is made.  Clone
\* checks the disk space first and returns its error at once.
GitCall(c, rq) ==
    /\ call[c].pc = "idle"
    /\ IF rq.op = "clone" /\ checkDiskSpace(gitcfg, rq.Statfs) # "nil"
       THEN /\ call' = call
            /\ gres' = [GitResNone EXCEPT !.req = rq, !.caller = c,
                                          !.err = checkDiskSpace(gitcfg, rq.Statfs)]
       ELSE /\ call' = [call EXCEPT ![c] = [CallNone EXCEPT !.pc = "acquire", !.req = rq]]
            /\ gres' = GitResNone
    /\ UNCHANGED <<sem, gitcfg, dirs>>
    /\ UNCHANGED <<svcVars, listing>>

\* acquireOperationLock: a permit is free and the call takes it.
GitAcquire(c) ==
    /\ call[c].pc = "acquire"
    /\ SemCanAcquire(sem, NewService(gitcfg))
    /\ sem' = sem + 1
    /\ call' = [call EXCEPT ![c].pc = "locked"]
    /\ gres' = GitResNone
    /\ UNCHANGED <<gitcfg, dirs>>
    /\ UNCHANGED <<svcVars, listing>>

\* acquireOperationLock: the caller's context is done and Acquire returns
\* its error; the call returns without a permit.
GitAcquireAbort(c) ==
    /\ call[c].pc = "acquire"
    /\ call[c].ctxDone
    /\ GitReturn(c, FALSE, <<>>, "failed to acquire operation lock", "context")
    /\ UNCHANGED <<gitcfg, dirs>>
    /\ UNCHANGED <<svcVars, listing>>

\* Clone, lines 141-186: the authentication is set up and the directory
\* must not exist; Pull, lines 246-316: the repository must open and the
\* authentication is set up.  Then the timeout is applied and the retry
\* attempts resolved, and the loop is entered if its condition holds.
GitPrepare(c) ==
    /\ call[c].pc = "locked"
    /\ LET rq == call[c].req
           n == ResolveRetryAttempts(rq, gitcfg)
           authErr == SetUpAuth(rq, gitcfg)
       IN  IF rq.op = "clone" /\ authErr # "nil"
           THEN GitReturn(c, TRUE, <<>>, "failed to build authentication", authErr)
           ELSE IF rq.op = "clone" /\ rq.Directory \in dirs
           THEN GitReturn(c, TRUE, <<>>, "git.ErrRepositoryAlreadyExists", "nil")
           ELSE IF rq.op = "pull" /\ rq.Directory \notin dirs
           THEN GitReturn(c, TRUE, <<>>, "git.ErrRepositoryNotFound", "nil")
           ELSE IF rq.op = "pull" /\ authErr # "nil"
           THEN GitReturn(c, TRUE, <<>>, "failed to build authentication", authErr)
           ELSE IF 0 <= n
           THEN /\ call' = [call EXCEPT ![c].pc = "attempt", ![c].retryAttempts = n]
                /\ gres' = GitResNone
                /\ sem' = sem
           ELSE GitReturn(c, TRUE, <<>>, "nil", "nil")
    /\ UNCHANGED <<gitcfg, dirs>>
    /\ UNCHANGED <<svcVars, listing>>

\* lines 191-194: before every attempt but the first the loop sleeps
\* attempt seconds.
GitBackoff(c) ==
    /\ call[c].pc = "backoff"
    /\ call' = [call EXCEPT ![c].pc = "attempt", ![c].slept = @ + call[c].attempt]
    /\ gres' = GitResNone
    /\ UNCHANGED <<sem, gitcfg, dirs>>
    /\ UNCHANGED <<svcVars, listing>>

\* lines 196-210: one attempt.  Under a done context it fails with the
\* context's error; otherwise it succeeds or fails as the remote decides.
\* A failure on the last attempt returns the wrapped error, any other
\* failure continues the loop while its condition holds, and a success
\* leaves it.
GitAttempt(c, outcome) ==
    /\ call[c].pc = "attempt"
    /\ LET rq == call[c].req
           err == IF CtxDone(c) THEN "context" ELSE outcome
           errs == Append(call[c].errs, err)
       IN  IF err # "nil" /\ IsLastAttempt(call[c].attempt, call[c].retryAttempts)
           THEN /\ GitReturn(c, TRUE, errs, LoopFailed(rq.op), err)
                /\ dirs' = dirs
           ELSE IF err # "nil" /\ call[c].attempt + 1 <= call[c].retryAttempts
           THEN /\ call' = [call EXCEPT ![c].pc = "backoff", ![c].attempt = @ + 1,
                                        ![c].errs = errs, ![c].lastErr = err]
                /\ gres' = GitResNone
                /\ sem' = sem
                /\ dirs' = dirs
           ELSE /\ GitReturn(c, TRUE, errs, "nil", "nil")
                /\ dirs' = IF rq.op = "clone" /\ err = "nil"
                           THEN dirs \cup {rq.Directory} ELSE dirs
    /\ UNCHANGED gitcfg
    /\ UNCHANGED <<svcVars, listing>>

\* The caller cancels its context, or the context's own deadline passes.
GitCtxDone(c) ==
    /\ call[c].pc # "idle"
    /\ ~call[c].ctxDone
    /\ call' = [call EXCEPT ![c].ctxDone = TRUE]
    /\ gres' = GitResNone
    /\ UNCHANGED <<sem, gitcfg, dirs>>
    /\ UNCHANGED <<svcVars, listing>>

\* The Timeout of the request has passed since the call was made.
GitTimeoutElapses(c) ==
    /\ call[c].pc # "idle"
    /\ call[c].req.Timeout
    /\ ~call[c].elapsed
    /\ call' = [call EXCEPT ![c].elapsed = TRUE]
    /\ gres' = GitResNone
    /\ UNCHANGED <<sem, gitcfg, dirs>>
    /\ UNCHANGED <<svcVars, listing>>

\* The context of context.WithTimeout (lines 172-177) is done: the timer was
\* started when the loop was about to be entered, so it fires no earlier
\* than the Timeout has passed since the call was made.
GitTimerFires(c) ==
    /\ call[c].pc \in {"attempt", "backoff"}
    /\ call[c].elapsed
    /\ ~call[c].timerFired
    /\ call' = [call EXCEPT ![c].timerFired = TRUE]
    /\ gres' = GitResNone
    /\ UNCHANGED <<sem, gitcfg, dirs>>
    /\ UNCHANGED <<svcVars, listing>>

(***************************************************************************)
(* Two callers of Clone and Pull on a service with one permit, over every  *)
(* choice of retry attempts, with timeouts and cancellations               *)
(***************************************************************************)
RetryCallers == 1..2

RetryConfigs ==
    {[ZeroConfig EXCEPT !.MaxConcurrentOperations = 1, !.RetryAttempts = r] : r \in {-1, 0, 1}}

RetryRequests ==
    {[GitReqNone EXCEPT !.RetryAttempts = r, !.op = o, !.Directory = GitDirectory,
                        !.Timeout = tm] :
        o \in {"clone", "pull"}, tm \in BOOLEAN, r \in -1..MaxRetryAttempts}

\* The errors of a failed attempt, and "nil" for a successful one.
AttemptOutcomes == {"nil", "transport error 1", "transport error 2"}

InitGit(configs) ==
    /\ db = [k \in {} |-> ""]
    /\ clock = 1
    /\ nextId = [stack |-> 1, deployment |-> 1]
    /\ dirs = {}
    /\ pc = [t \in Tasks |-> "done"]
    /\ req = [t \in Tasks |-> ReqNone]
    /\ loc = [t \in Tasks |-> LocNone]
    /\ res = ResNone
    /\ txn = [t \in Tasks |-> TxnNone]
    /\ gitcfg \in configs
    /\ sem = 0
    /\ call = [c \in GitCallers |-> CallNone]
    /\ gres = GitResNone
    /\ listing = ListingNone

InitRetry == InitGit(RetryConfigs)

NextRetry ==
    \E c \in RetryCallers :
        \/ \E rq \in RetryRequests : GitCall(c, rq)
        \/ GitAcquire(c)
        \/ GitAcquireAbort(c)
        \/ GitPrepare(c)
        \/ GitBackoff(c)
        \/ \E outcome \in AttemptOutcomes : GitAttempt(c, outcome)
        \/ GitCtxDone(c)
        \/ GitTimeoutElapses(c)
        \/ GitTimerFires(c)

SpecRetry == InitRetry /\ [][NextRetry]_vars

(***************************************************************************)
(* More callers than permits: Clone and Pull without timeouts, under the   *)
(* default and under a configured number of permits                        *)
(***************************************************************************)
PermitConfigs ==
    {[ZeroConfig EXCEPT !.MaxConcurrentOperations = m, !.RetryAttempts = 1] : m \in {-1, 0, 2}}

\* The first caller pulls and the others clone.
PermitRequests(c) ==
    {[GitReqNone EXCEPT !.op = IF c = 1 THEN "pull" ELSE "clone",
                        !.Directory = GitDirectory]}

PermitOutcomes == {"nil", "transport error 1"}

InitPermit == InitGit(PermitConfigs)

NextPermit ==
    \E c \in GitCallers :
        \/ \E rq \in PermitRequests(c) : GitCall(c, rq)
        \/ GitAcquire(c)
        \/ GitPrepare(c)
        \/ GitBackoff(c)
        \/ \E outcome \in PermitOutcomes : GitAttempt(c, outcome)

SpecPermit == InitPermit /\ [][NextPermit]_vars

(***************************************************************************)
(* Clone and Pull with an Authenticator and under a configured minimum of  *)
(* free disk space: the first caller makes every kind of request while the *)
(* second, with plain requests, competes for the one permit                *)
(***************************************************************************)
GuardCallers == 1..2

GuardConfigs ==
    {[ZeroConfig EXCEPT !.MaxConcurrentOperations = 1, !.RetryAttempts = 1,
                        !.MinDiskSpaceBytes = m, !.DefaultPrivateKey = k,
                        !.DefaultToken = tk] :
        m \in {0, 2}, k \in {"", GoodKey}, tk \in {"", "default-token"}}

GuardAuths ==
    {AuthNone, [AuthNone EXCEPT !.kind = "other"]}
        \cup {[AuthNone EXCEPT !.kind = "ssh", !.PrivateKeyPath = k] : k \in {"", GoodKey, BadKey}}
        \cup {[AuthNone EXCEPT !.kind = "https", !.Token = tk, !.Username = up[1],
                               !.Password = up[2]] :
                  tk \in {"", "token"},
                  up \in {<<"", "">>, <<"user", "">>, <<"", "secret">>, <<"user", "secret">>}}

GuardStatfs == {StatfsFailed} \cup {[failed |-> FALSE, available |-> a] : a \in 1..3}

GuardRequests(c) ==
    IF c = 1
    THEN {[GitReqNone EXCEPT !.op = o, !.Directory = GitDirectory, !.Auth = a, !.Statfs = f] :
             o \in {"clone", "pull"}, a \in GuardAuths, f \in GuardStatfs}
    ELSE {[GitReqNone EXCEPT !.op = o, !.Directory = GitDirectory] : o \in {"clone", "pull"}}

InitGuard == InitGit(GuardConfigs)

NextGuard ==
    \E c \in GuardCallers :
        \/ \E rq \in GuardRequests(c) : GitCall(c, rq)
        \/ GitAcquire(c)
        \/ GitPrepare(c)
        \/ GitBackoff(c)
        \/ \E outcome \in PermitOutcomes : GitAttempt(c, outcome)

SpecGuard == InitGuard /\ [][NextGuard]_vars

(***************************************************************************)
(* GetBranchesFiltered (internal/git/service.go): filter, sort, paginate   *)
(*                                                                         *)
(* A branch name and a pattern are the sequences of their characters.      *)
(* Branches come to exist in the repository one by one, and GetBranches    *)
(* returns them in the order of the reference store, which is any order.   *)
(***************************************************************************)
MaxBranches == 3
MaxLimit == 2
MaxOffset == 1

NameChoices == {<<"m">>, <<"f", "1">>, <<"f", "2">>, <<"f", "/", "x">>}

PatternChoices ==
    {<<>>, <<"*">>, <<"f", "*">>, <<"?", "1">>, <<"[">>}

\* The byte of a character of a branch name.
CharCode(ch) ==
    CASE ch = "/" -> 47 [] ch = "1" -> 49 [] ch = "2" -> 50
      [] ch = "f" -> 102 [] ch = "m" -> 109 [] ch = "x" -> 120

\* a < b for Go strings: the bytes are compared from the left.
RECURSIVE StringLess(_, _)
StringLess(a, b) ==
    IF b = <<>> THEN FALSE
    ELSE IF a = <<>> THEN TRUE
    ELSE IF CharCode(Head(a)) # CharCode(Head(b)) THEN CharCode(Head(a)) < CharCode(Head(b))
    ELSE StringLess(Tail(a), Tail(b))

\* filepath.Match(pattern, name) returns true without an error: "*" stands
\* for any run of characters other than the separator, "?" for one such
\* character, and "[" opens a character class, which no pattern used here
\* closes, so that Match returns ErrBadPattern.
RECURSIVE Match(_, _)
Match(pattern, name) ==
    IF pattern = <<>> THEN name = <<>>
    ELSE IF Head(pattern) = "*"
    THEN \E k \in 0..Len(name) :
             /\ \A i \in 1..k : name[i] # "/"
             /\ Match(Tail(pattern), SubSeq(name, k + 1, Len(name)))
    ELSE IF Head(pattern) = "?"
    THEN name # <<>> /\ Head(name) # "/" /\ Match(Tail(pattern), Tail(name))
    ELSE IF Head(pattern) = "["
    THEN FALSE
    ELSE name # <<>> /\ Head(name) = Head(pattern) /\ Match(Tail(pattern), Tail(name))

RemotesMark == <<"r", "e", "m", "o", "t", "e", "s", "/">>

\* strings.Contains(name, sub)
StringsContains(name, sub) ==
    \E i \in 1..(Len(name) + 1) :
        i + Len(sub) - 1 <= Len(name) /\ SubSeq(name, i, i + Len(sub) - 1) = sub

applyBranchFilter(branches, filter) ==
    IF filter.Pattern = <<>> /\ ~filter.RemoteOnly /\ ~filter.LocalOnly
    THEN branches
    ELSE LET Kept(branch) ==
                 /\ filter.Pattern # <<>> => Match(filter.Pattern, branch.Name)
                 /\ filter.RemoteOnly => StringsContains(branch.Name, RemotesMark)
                 /\ filter.LocalOnly => ~StringsContains(branch.Name, RemotesMark)
         IN  SelectSeq(branches, Kept)

\* The less function of sortBranches.
BranchLess(a, b, order) ==
    IF order = "desc" THEN StringLess(b.Name, a.Name) ELSE StringLess(a.Name, b.Name)

RECURSIVE SortInsert(_, _, _)
SortInsert(sorted, x, order) ==
    IF sorted = <<>> THEN <<x>>
    ELSE IF BranchLess(x, Head(sorted), order) THEN <<x>> \o sorted
    ELSE <<Head(sorted)>> \o SortInsert(Tail(sorted), x, order)

\* sort.Slice(branches, less): the names are distinct, so the result is the
\* one sequence ordered by less.
RECURSIVE SortSlice(_, _)
SortSlice(branches, order) ==
    IF branches = <<>> THEN <<>>
    ELSE SortInsert(SortSlice(Tail(branches), order), Head(branches), order)

sortBranches(branches, sortOptions) ==
    IF sortOptions.By = "" THEN branches
    ELSE IF sortOptions.By \in {"name", "date"} THEN SortSlice(branches, sortOptions.Order)
    ELSE branches

\* lines 950-960: the pagination.
Paginate(filtered, limit, offset) ==
    IF limit > 0 /\ offset >= 0
    THEN LET start == IF offset > Len(filtered) THEN Len(filtered) ELSE offset
             end == IF start + limit > Len(filtered) THEN Len(filtered) ELSE start + limit
         IN  SubSeq(filtered, start + 1, end)
    ELSE filtered

\* GetBranchesFiltered on a repository that opens.
GetBranchesFiltered(branches, rq) ==
    Paginate(sortBranches(applyBranchFilter(branches, rq), rq), rq.Limit, rq.Offset)

FilterRequests ==
    {[Pattern |-> p, RemoteOnly |-> ro, LocalOnly |-> lo, By |-> by, Order |-> ord,
      Limit |-> lim, Offset |-> off] :
        p \in PatternChoices, ro \in BOOLEAN, lo \in {FALSE},
        by \in {"", "name", "commit"}, ord \in {"asc", "desc"},
        lim \in 0..MaxLimit, off \in 0..MaxOffset}

\* The sequence with x put after the first pos elements of seq.
InsertAt(seq, pos, x) == SubSeq(seq, 1, pos) \o <<x>> \o SubSeq(seq, pos + 1, Len(seq))

\* A branch is created in the repository by other means than this service;
\* pos is its place in the order in which the reference store lists the
\* branches.
BranchAppears(name, pos) ==
    /\ Len(listing.branches) < MaxBranches
    /\ \A i \in 1..Len(listing.branches) : listing.branches[i].Name # name
    /\ pos \in 0..Len(listing.branches)
    /\ listing' = [ListingNone EXCEPT
                       !.head = listing.head,
                       !.branches = InsertAt(listing.branches, pos,
                                             [Name |-> name, IsDefault |-> name = listing.head])]
    /\ UNCHANGED <<svcVars, dirs, gitcfg, sem, call, gres>>

\* A call of GetBranchesFiltered, which takes no permit.
BranchesFiltered(rq) ==
    /\ listing' = [listing EXCEPT !.req = rq,
                                  !.out = GetBranchesFiltered(listing.branches, rq),
                                  !.returned = TRUE,
                                  !.created = CreatedNone]
    /\ UNCHANGED <<svcVars, dirs, gitcfg, sem, call, gres>>

InitBranches == InitGit({ZeroConfig})

NextBranches ==
    \/ \E name \in NameChoices, pos \in 0..MaxBranches : BranchAppears(name, pos)
    \/ \E rq \in FilterRequests : BranchesFiltered(rq)

SpecBranches == InitBranches /\ [][NextBranches]_vars

(***************************************************************************)
(* CreateBranch on one repository, with branches that also appear by       *)
(* other means                                                             *)
(***************************************************************************)
BranchNames(branches) == {branches[i].Name : i \in 1..Len(branches)}

\* GetBranches, lines 366-376: every branch with the mark of the one HEAD
\* names.
MarkDefault(branches, head) ==
    [i \in 1..Len(branches) |-> [branches[i] EXCEPT !.IsDefault = branches[i].Name = head]]

\* What worktree.Checkout with Create answers: nil, or an error before or
\* after it has written the reference of the new branch.
CheckoutOutcomes == {"nil", "failed before", "failed after"}

\* The branch HEAD names after worktree.Checkout with Create and the new
\* Branch (lines 521-525), and after worktree.Checkout with an existing
\* Branch (lines 534-536).
CheckoutCreate(name) == name

CheckoutBranch(name) == name

\* CreateBranch, lines 470-561, under a free permit, which the deferred
\* release gives back: the base is resolved, the name must be new, and
\* worktree.Checkout creates the branch and makes HEAD name it.  Without
\* Checkout in the request, lines 531-538 read HEAD, which names the new
\* branch by now, and check that branch out again.  pos is the place of the
\* new branch in the order of the reference store.
CreateBranch(rq, pos, outcome) ==
    /\ SemCanAcquire(sem, NewService(gitcfg))
    /\ pos \in 0..Len(listing.branches)
    /\ LET names == BranchNames(listing.branches)
           answer(err, info) == [req |-> rq, err |-> err, info |-> info]
           added == InsertAt(listing.branches, pos, [Name |-> rq.Name, IsDefault |-> FALSE])
           made == CheckoutCreate(rq.Name)
           head == IF ~rq.Checkout THEN CheckoutBranch(made) ELSE made
       IN  IF rq.BaseBranch # <<>> /\ rq.BaseBranch \notin names
           THEN listing' = [ListingNone EXCEPT !.head = listing.head,
                                               !.branches = listing.branches,
                                               !.created = answer("git.ErrBranchNotFound", <<>>)]
           ELSE IF rq.BaseBranch = <<>> /\ listing.head \notin names
           THEN listing' = [ListingNone EXCEPT !.head = listing.head,
                                               !.branches = listing.branches,
                                               !.created = answer("git.ErrInvalidRepository", <<>>)]
           ELSE IF rq.Name \in names
           THEN listing' = [ListingNone EXCEPT !.head = listing.head,
                                               !.branches = listing.branches,
                                               !.created = answer("git.ErrBranchAlreadyExists", <<>>)]
           ELSE IF outcome # "nil"
           THEN listing' = [ListingNone EXCEPT
                                !.head = listing.head,
                                !.branches = IF outcome = "failed after"
                                             THEN MarkDefault(added, listing.head)
                                             ELSE listing.branches,
                                !.created = answer("git.ErrBranchCreateFailed", <<>>)]
           ELSE listing' = [ListingNone EXCEPT
                                !.head = head,
                                !.branches = MarkDefault(added, head),
                                !.created = answer("nil", <<[Name |-> rq.Name,
                                                            IsDefault |-> head = rq.Name]>>)]
    /\ UNCHANGED <<svcVars, dirs, gitcfg, sem, call, gres>>

CreateRequests ==
    {[Path |-> GitDirectory, Name |-> n, BaseBranch |-> b, Checkout |-> co] :
        n \in NameChoices, b \in {<<>>, <<"m">>, <<"f", "1">>}, co \in BOOLEAN}

InitCreateBranch == InitGit({ZeroConfig})

NextCreateBranch ==
    \/ \E name \in NameChoices, pos \in 0..MaxBranches : BranchAppears(name, pos)
    \/ \E rq \in CreateRequests, pos \in 0..MaxBranches, outcome \in CheckoutOutcomes :
           CreateBranch(rq, pos, outcome)

SpecCreateBranch == InitCreateBranch /\ [][NextCreateBranch]_vars

(***************************************************************************)
(* Properties of the stack service                                         *)
(***************************************************************************)
StackKeys(store) == {k \in DOMAIN store : k[1] = prefixByID}

StoredStacks(store) == {store[k] : k \in StackKeys(store)}

IndexKeys(store) ==
    {k \in DOMAIN store : k[1] \in {prefixByName, prefixByStatus, prefixByLabel}}

NameTaken(store, name) == \E s \in StoredStacks(store) : s.name = name

\* C3: a Create whose name is the name of a stack in the store fails with
\* Conflict and leaves the store unchanged: it returns no other error before
\* the uniqueness check, and the step that runs the check returns Conflict,
\* writes nothing and buffers nothing.
C3_DuplicateNameConflict ==
    [][\A t \in Tasks :
           /\ (pc[t] = "done" /\ res'.task = t /\ res'.req.op = "create"
                   /\ NameTaken(db, res'.req.draft.name))
                  => (res'.err = "stacks.ErrConflict" /\ db' = db)
           /\ (pc[t] = "cr_begin" /\ pc'[t] # "cr_begin" /\ NameTaken(db, req[t].draft.name))
                  => /\ res'.task = t
                     /\ res'.err = "stacks.ErrConflict"
                     /\ db' = db
                     /\ ~txn'[t].open
      ]_vars

\* C4: no two stack records in the store have the same name.
C4_UniqueNames ==
    \A a, b \in StackKeys(db) : a # b => db[a].name # db[b].name

\* C5: the step of an Update that runs the updater on a stored stack returns
\* NotAllowed, writes nothing and buffers nothing when the updater changes
\* the name, and goes on to its commit when the updater keeps the name.
C5_RenameNotAllowed ==
    [][\A t \in Tasks :
           (pc[t] = "up_begin" /\ pc'[t] # "up_begin"
                /\ StorageKey(req[t].stackID) \in DOMAIN db)
               => IF ApplyMutation(req[t].mut, db[StorageKey(req[t].stackID)]).name
                         # db[StorageKey(req[t].stackID)].name
                  THEN /\ res'.task = t
                       /\ res'.err = "stacks.ErrNotAllowed"
                       /\ db' = db
                       /\ ~txn'[t].open
                  ELSE /\ pc'[t] = "commit"
                       /\ txn'[t].open
      ]_vars

\* C6: the index entries in the store are exactly the StorageIndexes of the
\* stored stack records, each holding the primary key of its record.
C6_IndexesMatchRecords ==
    /\ IndexKeys(db) = UNION {StorageIndexes(s) : s \in StoredStacks(db)}
    /\ \A s \in StoredStacks(db) : \A k \in StorageIndexes(s) : db[k] = StorageKey(s.id)

\* C7: a Create with the URL of a repository that can be cloned succeeds,
\* unless the name is taken: it returns the stack, the record is in the
\* store with status active and a sync time, and the working directory of
\* the stack holds the clone.
C7_CreateWithRepository ==
    (/\ res.req.op = "create"
     /\ Cloneable(res.req.draft.gitURL)
     /\ res.err \notin {"stacks.ErrConflict", "badger.ErrConflict"})
        => /\ res.err = "nil"
           /\ Len(res.ret) = 1
           /\ StorageKey(res.ret[1].id) \in DOMAIN db
           /\ db[StorageKey(res.ret[1].id)].status = StatusActive
           /\ db[StorageKey(res.ret[1].id)].lastSync # NilTime
           /\ RepositoryExists(dirs, BuildPath(res.ret[1].id))

(***************************************************************************)
(* Properties of the deployment service                                    *)
(***************************************************************************)
DeploymentKeys(store) == {k \in DOMAIN store : k[1] = prefixDeploymentByID}

StoredDeployments(store) == {store[k] : k \in DeploymentKeys(store)}

SuccessOf(store, stackID) ==
    {d \in StoredDeployments(store) : d.stackID = stackID /\ d.status = StatusSuccess}

\* The success deployments of the stack created last.
LastSuccessOf(store, stackID) ==
    {d \in SuccessOf(store, stackID) :
        \A e \in SuccessOf(store, stackID) : e.createdAt <= d.createdAt}

\* The keys on which two stores differ.
ChangedKeys(a, b) ==
    {k \in DOMAIN a \cup DOMAIN b : k \notin DOMAIN a \/ k \notin DOMAIN b \/ a[k] # b[k]}

\* C1: a rollback is atomic.  No step of the store turns a deployment into
\* rolled_back without, in the same step, leaving the deployment its previous
\* pointer names in status success with the same completion and update time;
\* a Rollback that returns without error has left D1 rolled_back and D0 =
\* previous(D1) success and has changed nothing but these two records and
\* their index entries; and a list of a stack's deployments is the content of
\* the store at one instant, so a reader sees both changes or neither.
C1_RollbackAtomic ==
    [][/\ \A k \in DeploymentKeys(db) \cap DeploymentKeys(db') :
              (db[k].status # StatusRolledBack /\ db'[k].status = StatusRolledBack)
                  => /\ getKey(db[k].previous) \in DeploymentKeys(db')
                     /\ db'[getKey(db[k].previous)].status = StatusSuccess
                     /\ db'[getKey(db[k].previous)].completedAt = db'[k].completedAt
                     /\ db'[getKey(db[k].previous)].updatedAt = db'[k].updatedAt
       /\ (res'.req.op = "rollback" /\ res'.err = "nil")
              => /\ Len(res'.ret) = 2
                 /\ res'.ret[1].previous = res'.ret[2].id
                 /\ db'[getKey(res'.ret[1].id)].status = StatusRolledBack
                 /\ db'[getKey(res'.ret[2].id)].status = StatusSuccess
                 /\ ChangedKeys(db, db') \subseteq
                        {getKey(res'.ret[1].id), getKey(res'.ret[2].id),
                         stackIndexKey(res'.ret[1]), stackIndexKey(res'.ret[2])}
       /\ (res'.req.op = "list" /\ res'.err = "nil")
              => \A i \in 1..Len(res'.ret) : res'.ret[i] = db[getKey(res'.ret[i].id)]
      ]_vars

\* A Rollback has returned without error and a reader has then listed the
\* stack: the list shows D1 rolled_back and D0 success.
C1_Witness ==
    /\ res.req.op = "list"
    /\ \E i, j \in 1..Len(res.ret) :
           /\ res.ret[i].status = StatusRolledBack
           /\ res.ret[i].previous = res.ret[j].id
           /\ res.ret[j].status = StatusSuccess
           /\ res.ret[j].completedAt = res.ret[i].completedAt

\* The stack has no success deployment, or its last success deployment has
\* no previous pointer.
NoRollbackTarget(store, stackID) ==
    \A d \in LastSuccessOf(store, stackID) : d.previous = NilID

C8_TriggerReturnsFinalState ==
    (res.req.op = "trigger" /\ res.err = "nil")
        => /\ Len(res.ret) = 1
           /\ res.ret[1].status = StatusSuccess
           /\ res.ret[1].completedAt # NilTime

\* C9: the previous pointer of a deployment is, at the step that creates it,
\* the id of the stack's last success deployment, and it is unset exactly
\* when the stack has no success deployment, whatever runs concurrently.
C9_PreviousIsLastSuccess ==
    [][\A k \in DeploymentKeys(db') \ DeploymentKeys(db) :
           IF SuccessOf(db, db'[k].stackID) = {}
           THEN db'[k].previous = NilID
           ELSE \E d \in LastSuccessOf(db, db'[k].stackID) : db'[k].previous = d.id
      ]_vars

\* The map whose keys are those of either map, the request's value winning.
MergedKV(stackVariables, reqVariables) ==
    [k \in DOMAIN stackVariables.kv \cup DOMAIN reqVariables.kv |->
        IF k \in DOMAIN reqVariables.kv THEN reqVariables.kv[k] ELSE stackVariables.kv[k]]

\* C10: for every stack variable map and every request variable map, nil or
\* empty ones included, a Trigger on an existing stack creates a deployment
\* whose variables are the merge of the two with the request's values
\* winning, and the merge leaves the stack's own map as it was.
C10_VariablesMerged ==
    /\ (res.req.op = "trigger" /\ StorageKey(res.req.stackID) \in DOMAIN db)
           => /\ res.err = "nil"
              /\ Len(res.ret) = 1
              /\ db[getKey(res.ret[1].id)].variables.kv
                     = MergedKV(db[StorageKey(res.req.stackID)].variables, res.req.variables)
    /\ \A t \in Tasks :
           pc[t] \in {"tr_cget", "tr_create"}
               => loc[t].stackVariables = loc[t].stack[1].variables

\* The errors the API layer answers with 404: the NotFound of the stack
\* service and the NotFound of the deployment service.
NotFoundErrors == {"stacks.ErrNotFound", "deployments.ErrNotFound"}

\* C11: a Trigger whose stack id has no stack record returns NotFound and
\* leaves the store as it was: no deployment record and no index entry is
\* created.
C11_TriggerMissingStack ==
    [][\A t \in Tasks :
           (pc[t] = "done" /\ res'.task = t /\ res'.req.op = "trigger"
                /\ StorageKey(res'.req.stackID) \notin DOMAIN db)
               => (res'.err \in NotFoundErrors /\ db' = db)
      ]_vars

\* C12: Get, Update and Delete of the stack service, called with an id that
\* has no stack record, return the NotFound of the stack service and leave
\* the store as it was.  For Get and Update the step is the first of the
\* call; for Delete it is the step of the repository's Delete, which also
\* buffers no write.
C12_MissingStackNotFound ==
    [][\A t \in Tasks :
           /\ (pc[t] = "done" /\ res'.task = t /\ res'.req.op \in {"get", "update"}
                   /\ StorageKey(res'.req.stackID) \notin DOMAIN db)
                  => (res'.err = "stacks.ErrNotFound" /\ db' = db)
           /\ (pc[t] = "del_begin" /\ pc'[t] # "del_begin"
                   /\ StorageKey(req[t].stackID) \notin DOMAIN db)
                  => /\ res'.task = t
                     /\ res'.err = "stacks.ErrNotFound"
                     /\ db' = db
                     /\ ~txn'[t].open
      ]_vars

(***************************************************************************)
(* Properties of the Git service                                           *)
(***************************************************************************)
\* The RetryAttempts setting of a request: the request's own, or else the
\* configured one.
RetrySetting(rq) == IF rq.RetryAttempts # 0 THEN rq.RetryAttempts ELSE gitcfg.RetryAttempts

\* Every attempt of the call that has just returned failed.
EveryAttemptFailed == gres.errs # <<>> /\ \A i \in 1..Len(gres.errs) : gres.errs[i] # "nil"

\* C13: for every RetryAttempts = N >= 1, a Clone whose every attempt fails
\* returns after exactly N + 1 attempts, and what it returns is CloneFailed
\* wrapping the error of the last attempt.
C13_CloneAttempts ==
    (gres.req.op = "clone" /\ RetrySetting(gres.req) >= 1 /\ EveryAttemptFailed)
        => /\ Len(gres.errs) = RetrySetting(gres.req) + 1
           /\ gres.err = "git.ErrCloneFailed"
           /\ gres.cause = gres.errs[Len(gres.errs)]

\* A Clone with RetryAttempts = 2 has failed three times, the last time with
\* another error than the first, and has returned.
C13_Witness ==
    /\ gres.req.op = "clone"
    /\ gres.req.RetryAttempts = 2
    /\ Len(gres.errs) = 3
    /\ EveryAttemptFailed
    /\ gres.errs[3] # gres.errs[1]
    /\ gres.err = "git.ErrCloneFailed"

\* C14: once the context of a Clone or Pull is done, the retry loop makes no
\* further attempt and no backoff sleep: the only step the call takes from
\* the loop is its return, with the attempts and the sleeps it had made.
C14_CancelStopsRetries ==
    [][\A c \in GitCallers :
           (CtxDone(c) /\ call[c].pc \in {"attempt", "backoff"})
               => /\ call'[c].pc \in {call[c].pc, "idle"}
                  /\ call'[c].pc = "idle"
                         => /\ gres'.caller = c
                            /\ gres'.errs = call[c].errs
                            /\ gres'.slept = call[c].slept
                  /\ call'[c].pc = call[c].pc
                         => /\ call'[c].errs = call[c].errs
                            /\ call'[c].slept = call[c].slept
      ]_vars

\* The calls past the acquisition of a permit that have not returned.
PermitHolders == {c \in GitCallers : call[c].pc \in {"locked", "attempt", "backoff"}}

\* C15: at no time are more than MaxConcurrentOperations calls of Clone and
\* Pull past the acquisition of a permit and not yet returned, the limit
\* being 5 when the setting is zero or negative.
C15_PermitCap ==
    Cardinality(PermitHolders)
        <= (IF gitcfg.MaxConcurrentOperations <= 0 THEN 5
            ELSE gitcfg.MaxConcurrentOperations)

\* Under the default limit five calls hold a permit and a sixth caller is
\* waiting for one.
C15_Witness ==
    /\ gitcfg.MaxConcurrentOperations <= 0
    /\ Cardinality(PermitHolders) = 5
    /\ \E c \in GitCallers : call[c].pc = "acquire"

\* C16: a caller that waits for a permit, none being free, can abort once
\* the deadline of its call has expired, be it the caller's context or the
\* Timeout of the request.
C16_WaitBoundedByDeadline ==
    \A c \in GitCallers :
        (/\ call[c].pc = "acquire"
         /\ ~SemCanAcquire(sem, NewService(gitcfg))
         /\ (call[c].ctxDone \/ call[c].elapsed))
            => ENABLED GitAcquireAbort(c)

(***************************************************************************)
(* Properties of Service.Create and Service.Update around the Git steps    *)
(***************************************************************************)
\* The stack record id and every index entry that holds its key are out of
\* the store.
StackGone(store, id) ==
    /\ StorageKey(id) \notin DOMAIN store
    /\ \A k \in IndexKeys(store) : store[k] # StorageKey(id)

\* C17: the step by which a Create returns after its clone failed, which is
\* the compensating delete failing before its commit or the commit of that
\* delete, returns the clone's error; and when the delete commits, the
\* record and every index entry holding its key are out of the store.
C17_CloneFailureCompensated ==
    [][\A t \in Tasks :
           (/\ pc[t] \in {"cr_cleanup", "commit"}
            /\ pc[t] = "commit" => loc[t].at = "cr_cleanup"
            /\ pc'[t] = "done")
               => /\ res'.task = t
                  /\ res'.req.op = "create"
                  /\ res'.err = loc[t].gitErr
                  /\ res'.err \in {"git.ErrCloneFailed", "git.ErrRepositoryAlreadyExists"}
                  /\ (pc[t] = "commit" /\ CommitOK(t)) => StackGone(db', loc[t].stack[1].id)
      ]_vars

\* A Create has returned the clone's failure, its record had been stored
\* under the first id, and the store holds neither record nor index entry.
C17_Witness ==
    /\ res.req.op = "create"
    /\ res.req.draft.gitURL = BadURL
    /\ res.err = "git.ErrCloneFailed"
    /\ nextId.stack = 2
    /\ StackGone(db, 1)
    /\ IndexKeys(db) = {}

\* C18: the step by which a Create with a repository URL returns the
\* validation's error returns exactly that error and persists nothing: the
\* store, the directories and the id counter are as before, no transaction
\* of the caller is open, and the directory of the id the stack would have
\* had does not exist.
C18_ValidationFailurePersistsNothing ==
    [][\A t \in Tasks :
           (/\ pc[t] = "done" /\ pc'[t] = "done"
            /\ res'.task = t /\ res'.req.op = "create"
            /\ res'.req.draft.gitURL # "")
               => /\ res'.err # "nil"
                  /\ res'.err = ValidateRepository(dirs, res'.req.draft.gitURL).err
                  /\ res'.ret = <<>>
                  /\ db' = db
                  /\ dirs' = dirs
                  /\ nextId' = nextId
                  /\ ~txn'[t].open
                  /\ BuildPath(nextId.stack) \notin dirs'
      ]_vars

\* A Create with a URL has returned the validation's error while the store
\* holds one stack with its working directory and nothing else.
C18_Witness ==
    /\ res.req.op = "create"
    /\ res.req.draft.gitURL = GoodURL
    /\ res.err = "git.ErrRepositoryAlreadyExists"
    /\ Cardinality(StackKeys(db)) = 1
    /\ dirs = {BuildPath(1)}

\* The step by which task t returns from the Repository.Update it ran at the
\* position p: that update failing before its commit, or its commit.
ReturnsFrom(t, p) ==
    /\ pc[t] \in {p, "commit"}
    /\ pc[t] = "commit" => loc[t].at = p
    /\ pc'[t] = "done"

\* C19: when an Update returns after its pull or clone failed, it returns
\* the error of that pull or clone and the stored stack has status error.
C19_GitFailureMarksError ==
    [][\A t \in Tasks :
           ReturnsFrom(t, "up_err")
               => /\ res'.task = t
                  /\ res'.req.op = "update"
                  /\ res'.err = loc[t].gitErr
                  /\ res'.err # "nil"
                  /\ StorageKey(req[t].stackID) \in DOMAIN db'
                  /\ db'[StorageKey(req[t].stackID)].status = StatusError
      ]_vars

\* C20: when an Update returns after its pull or clone succeeded, it returns
\* no error and the stored stack has a sync time, status active if its
\* status was error, and otherwise the status it had.
C20_GitSuccessStampsSync ==
    [][\A t \in Tasks :
           ReturnsFrom(t, "up_stamp")
               => /\ res'.task = t
                  /\ res'.req.op = "update"
                  /\ res'.err = "nil"
                  /\ StorageKey(req[t].stackID) \in DOMAIN db'
                  /\ db'[StorageKey(req[t].stackID)].lastSync # NilTime
                  /\ db'[StorageKey(req[t].stackID)].status =
                         IF db[StorageKey(req[t].stackID)].status = StatusError
                         THEN StatusActive
                         ELSE db[StorageKey(req[t].stackID)].status
      ]_vars

\* C21: the step by which a Delete of a stack that is in the store returns,
\* whether or not the removal of the working directory failed, returns no
\* error and leaves neither the record nor an index entry holding its key.
C21_DeleteDespiteRemoveFailure ==
    [][\A t \in Tasks :
           (/\ pc[t] # "done" /\ pc'[t] = "done"
            /\ res'.task = t /\ res'.req.op = "delete"
            /\ StorageKey(res'.req.stackID) \in DOMAIN db)
               => /\ res'.err = "nil"
                  /\ StackGone(db', res'.req.stackID)
      ]_vars

\* A Delete whose removal of the working directory failed has deleted the
\* record in its transaction and is about to commit; the directory exists.
C21_Witness ==
    /\ pc[1] = "commit"
    /\ loc[1].at = "del_begin"
    /\ loc[1].gitErr = "remove failed"
    /\ BuildPath(req[1].stackID) \in dirs
    /\ StorageKey(req[1].stackID) \in txn[1].dels

\* The tasks inside a call of gitSvc.Clone, gitSvc.Pull or
\* gitSvc.RemoveRepository on the working directory of the stack id.
WorkingCopyUsers(id) ==
    {t \in Tasks :
        \/ pc[t] \in {"up_clone", "up_pull", "del_rm"} /\ req[t].stackID = id
        \/ pc[t] = "cr_clone" /\ loc[t].stack[1].id = id}

\* C22: at no time are two tasks inside a clone, pull or removal on the
\* working directory of the same stack.
C22_WorkingCopyExclusive ==
    \A id \in StackIDs : Cardinality(WorkingCopyUsers(id)) <= 1

\* C23: a step of a stack service call in which the store fails ends the
\* call with the store's error: a commit that meets a conflict returns
\* badger.ErrConflict, and a Repository.Update or Repository.Delete that
\* fails before its commit returns its error.
C23_StoreErrorsReturned ==
    [][\A t \in Tasks :
           /\ (pc[t] \in {"commit", "cr_commit"} /\ ~CommitOK(t) /\ pc'[t] # pc[t])
                  => /\ pc'[t] = "done"
                     /\ res'.task = t
                     /\ res'.err = "badger.ErrConflict"
           /\ (pc[t] \in {"up_begin", "up_err", "up_stamp", "cr_stamp"} /\ pc'[t] # pc[t]
                   /\ RepoUpdate(db, UpdateTarget(t), UpdateMutation(t), clock).err # "nil")
                  => /\ pc'[t] = "done"
                     /\ res'.task = t
                     /\ res'.err = RepoUpdate(db, UpdateTarget(t), UpdateMutation(t), clock).err
           /\ (pc[t] = "del_begin" /\ pc'[t] # pc[t]
                   /\ RepoDelete(db, req[t].stackID).err # "nil")
                  => /\ pc'[t] = "done"
                     /\ res'.task = t
                     /\ res'.err = RepoDelete(db, req[t].stackID).err
      ]_vars

(***************************************************************************)
(* Properties of the deployment repository and of Rollback                 *)
(***************************************************************************)
\* The updater of the call rq assigns to a stored deployment a stack id
\* other than the one it has, every deployment of the call being stored.
ChangesOwner(store, rq) ==
    /\ \A i \in 1..Len(rq.ids) : getKey(rq.ids[i]) \in DOMAIN store
    /\ \E i \in 1..Len(rq.ids) :
           rq.owners[i] # NilID /\ rq.owners[i] # store[getKey(rq.ids[i])].stackID

\* C24: a call of Repository.Update or Repository.UpdateDual whose updater
\* changes the stack id of a deployment does not go on to a commit: it
\* returns NotAllowed at once, the store is unchanged and the caller has
\* no open transaction.
C24_OwnerChangeNotAllowed ==
    [][\A t \in Tasks :
           /\ (pc[t] = "done" /\ pc'[t] = "rp_commit") => ~ChangesOwner(db, req'[t])
           /\ (pc[t] = "done" /\ res'.task = t /\ res'.req.op = "repository.update"
                   /\ ChangesOwner(db, res'.req))
                  => /\ res'.err = "deployments.ErrNotAllowed"
                     /\ db' = db
                     /\ ~txn'[t].open
      ]_vars

\* C25: the pair a successful Rollback returns shows the two records as
\* they are stored after it: the first rolled back, the second success,
\* each with the completion time of its stored record, which is the same
\* for both.
C25_RollbackReturnsFinalState ==
    [][\A t \in Tasks :
           (pc[t] = "rb_commit" /\ res'.task = t /\ res'.err = "nil")
               => /\ Len(res'.ret) = 2
                  /\ res'.ret[1].status = StatusRolledBack
                  /\ res'.ret[2].status = StatusSuccess
                  /\ res'.ret[1].completedAt = db'[getKey(res'.ret[1].id)].completedAt
                  /\ res'.ret[2].completedAt = db'[getKey(res'.ret[2].id)].completedAt
                  /\ res'.ret[1].completedAt = res'.ret[2].completedAt
      ]_vars

\* The task t takes a step of Service.Rollback.
RollbackStep(t) ==
    IF pc[t] = "done"
    THEN pc'[t] = "rb_prev" \/ (res'.task = t /\ res'.req.op = "rollback")
    ELSE pc[t] \in {"rb_prev", "rb_dual", "rb_commit"} /\ pc'[t] # pc[t]

\* Two deployment records that differ at most in status, completion time
\* and update time.
SameButOutcome(a, b) ==
    [b EXCEPT !.status = a.status, !.completedAt = a.completedAt, !.updatedAt = a.updatedAt] = a

\* The keys of the two deployment records of the stack created last.
TwoMostRecent(store, stackID) ==
    {k \in DeploymentKeys(store) :
        /\ store[k].stackID = stackID
        /\ Cardinality({j \in DeploymentKeys(store) :
                            /\ store[j].stackID = stackID
                            /\ store[j].createdAt > store[k].createdAt}) < 2}

\* The keys of the deployment a Rollback found as the latest success
\* deployment of the stack and of the deployment its previous pointer names.
RollbackPair(t) ==
    IF pc[t] = "rb_commit"
    THEN {getKey(loc[t].latest[1].id), getKey(loc[t].latest[1].previous)}
    ELSE {}

\* A step that deletes no deployment record, changes deployment records
\* under the keys K only, and there only status, completion time and update
\* time, and leaves every stack record as it was.
TouchesOnly(K) ==
    /\ DeploymentKeys(db) \subseteq DeploymentKeys(db')
    /\ \A k \in DeploymentKeys(db) :
           /\ db'[k] # db[k] => k \in K
           /\ SameButOutcome(db[k], db'[k])
    /\ StackKeys(db') = StackKeys(db)
    /\ \A k \in StackKeys(db) : db'[k] = db[k]

\* C26 as stated: every step of a Rollback deletes no deployment record and
\* changes only the status and the completion and update times of the two
\* most recent deployment records of the stack; every other deployment
\* record, every previous pointer and every stack record is unchanged.
C26_RollbackTouchesTwoMostRecent ==
    [][\A t \in Tasks :
           RollbackStep(t) => TouchesOnly(TwoMostRecent(db, req[t].stackID))]_vars

\* C26, amended: every step of a Rollback deletes no deployment record and
\* changes only the status and the completion and update times of the
\* deployment it found as the latest success deployment of the stack and of
\* the deployment that one's previous pointer names; every other deployment
\* record, every previous pointer and every stack record is unchanged.
C26_RollbackTouchesPair ==
    [][\A t \in Tasks : RollbackStep(t) => TouchesOnly(RollbackPair(t))]_vars

\* A Rollback has returned without error after changing two records that
\* are not the two most recent of the stack.
C26_Witness ==
    /\ res.req.op = "rollback"
    /\ res.err = "nil"
    /\ db[getKey(res.ret[1].id)].status = StatusRolledBack
    /\ {getKey(res.ret[1].id), getKey(res.ret[2].id)} # TwoMostRecent(db, res.req.stackID)

\* The previous pointer of the deployment d is unset or names a stored
\* deployment of the stack of d that was created before d.
PreviousIsEarlier(store, d) ==
    \/ d.previous = NilID
    \/ /\ getKey(d.previous) \in DeploymentKeys(store)
       /\ store[getKey(d.previous)].stackID = d.stackID
       /\ store[getKey(d.previous)].createdAt < d.createdAt

\* C27: in every reachable state the previous pointer of each deployment,
\* when set, names an existing deployment of the same stack created
\* earlier, so that the pointers form no cycle; and no step changes the
\* previous pointer or the stack id of a stored deployment.
C27_PreviousChainSound ==
    /\ [](\A d \in StoredDeployments(db) : PreviousIsEarlier(db, d))
    /\ [][\A k \in DeploymentKeys(db) :
              /\ k \in DeploymentKeys(db')
              /\ db'[k].previous = db[k].previous
              /\ db'[k].stackID = db[k].stackID]_vars

\* Three deployments are chained by their previous pointers and the newest
\* two of them have been changed after their creation.
C27_Witness ==
    \E d, e \in StoredDeployments(db) :
        /\ d.previous = e.id
        /\ e.previous # NilID
        /\ d.updatedAt > d.createdAt
        /\ e.status = StatusRolledBack

(***************************************************************************)
(* Properties of the guards of Clone and Pull                              *)
(***************************************************************************)
\* The request names ssh or https authentication and neither it nor the
\* configuration holds what a credential is built from.
NoCredential(auth, config) ==
    \/ auth.kind = "ssh" /\ auth.PrivateKeyPath = "" /\ config.DefaultPrivateKey = ""
    \/ /\ auth.kind = "https"
       /\ auth.Token = ""
       /\ ~(auth.Username # "" /\ auth.Password # "")
       /\ config.DefaultToken = ""

\* C28: a Clone, or a Pull of a repository that opens, for which no
\* credential can be built never starts an attempt, and the step that sets
\* up its authentication returns AuthenticationFailed after no attempt and
\* gives the permit back.
C28_NoCredentialFails ==
    /\ [](\A c \in GitCallers :
            (call[c].pc \in {"attempt", "backoff"})
                => ~NoCredential(call[c].req.Auth, gitcfg))
    /\ [][\A c \in GitCallers :
              (/\ call[c].pc = "locked"
               /\ call'[c].pc # "locked"
               /\ NoCredential(call[c].req.Auth, gitcfg)
               /\ (call[c].req.op = "pull" => call[c].req.Directory \in dirs))
                  => /\ call'[c].pc = "idle"
                     /\ gres'.caller = c
                     /\ "git.ErrAuthenticationFailed" \in {gres'.err, gres'.cause}
                     /\ gres'.errs = <<>>
                     /\ sem' = sem - 1]_vars

\* The space is known and below the configured minimum.
SpaceShort(config, statfs) ==
    /\ config.MinDiskSpaceBytes > 0
    /\ ~statfs.failed
    /\ statfs.available < config.MinDiskSpaceBytes

\* C29: the first step of a Clone returns DiskSpace when a minimum is
\* configured and the available space is below it, and then no permit was
\* taken, no directory looked at or made and no attempt started; when the
\* space query fails, when no minimum is configured or when the space
\* suffices, the Clone goes on to acquire a permit.
C29_DiskSpaceFirst ==
    [][\A c \in GitCallers :
           /\ (call[c].pc = "idle" /\ gres'.caller = c /\ gres'.req.op = "clone")
                  => /\ SpaceShort(gitcfg, gres'.req.Statfs)
                     /\ gres'.err = "git.ErrDiskSpace"
                     /\ gres'.errs = <<>>
                     /\ UNCHANGED <<sem, dirs, call>>
           /\ (call[c].pc = "idle" /\ call'[c].pc # "idle" /\ call'[c].req.op = "clone")
                  => /\ ~SpaceShort(gitcfg, call'[c].req.Statfs)
                     /\ call'[c].pc = "acquire"
                     /\ UNCHANGED <<sem, dirs>>
      ]_vars

\* A Clone was refused for lack of disk space while the other caller held
\* the only permit, its directory not existing.
C29_Witness ==
    /\ gres.err = "git.ErrDiskSpace"
    /\ gres.req.op = "clone"
    /\ sem = NewService(gitcfg)
    /\ gres.req.Directory \notin dirs

(***************************************************************************)
(* Properties of GetBranchesFiltered                                       *)
(***************************************************************************)
\* The branches of the repository whose name matches the pattern of rq: all
\* of them when the pattern is empty.
Matching(branches, rq) ==
    {branches[i] : i \in {j \in 1..Len(branches) :
                              rq.Pattern = <<>> \/ Match(rq.Pattern, branches[j].Name)}}

\* The number of matching branches that come before b in the order of rq.
RankOf(b, branches, rq) ==
    Cardinality({a \in Matching(branches, rq) : BranchLess(a, b, rq.Order)})

\* C30: a listing by name of local and remote branches alike holds, in the
\* requested order of their names, exactly the matching branches that
\* Offset or more matching branches precede and, when Limit is not 0, that
\* fewer than Offset + Limit precede.
C30_FilterSortPaginate ==
    (listing.returned /\ listing.req.By = "name"
         /\ ~listing.req.RemoteOnly /\ ~listing.req.LocalOnly)
        => LET rq == listing.req
               out == listing.out
           IN  /\ \A i, j \in 1..Len(out) : i < j => BranchLess(out[i], out[j], rq.Order)
               /\ {out[i] : i \in 1..Len(out)} =
                      {b \in Matching(listing.branches, rq) :
                          /\ RankOf(b, listing.branches, rq) >= rq.Offset
                          /\ rq.Limit = 0
                                 \/ RankOf(b, listing.branches, rq) < rq.Offset + rq.Limit}

(***************************************************************************)
(* Properties of the statuses of deployments under concurrent callers      *)
(***************************************************************************)
\* C35: a deployment whose status has become rolled_back never has status
\* success again: no step of the store takes a stored deployment from
\* rolled_back to success.
C35_RolledBackStaysRolledBack ==
    [][\A k \in DeploymentKeys(db) \cap DeploymentKeys(db') :
           db[k].status = StatusRolledBack => db'[k].status # StatusSuccess]_vars

\* C36: in the state the commit of a successful Rollback produces, the
\* success deployment of the stack created last is the restored deployment,
\* the second of the pair the Rollback returns.
C36_RestoredIsLatestSuccess ==
    [][\A t \in Tasks :
           (pc[t] = "rb_commit" /\ res'.task = t /\ res'.err = "nil")
               => \A d \in LastSuccessOf(db', res'.req.stackID) : d.id = res'.ret[2].id]_vars

C32_LatestByStack ==
    \A id \in DeployStackIDs \cup {MissingStackID} :
        LET r == GetLatestByStack(db, id)
        IN  /\ r.err = "nil" => r.val[1] \in LastSuccessOf(db, id)
            /\ r.err = "deployments.ErrNotFound" <=> SuccessOf(db, id) = {}
            /\ r.err \in {"nil", "deployments.ErrNotFound"}

\* C33: a ListByStack that returns without error returns the stored
\* deployments of the stack, all of them, each once, in ascending order of
\* creation, and no other deployment.
C33_ListComplete ==
    [][(res'.req.op = "list" /\ res'.err = "nil")
           => LET ret == res'.ret
              IN  /\ {ret[i] : i \in 1..Len(ret)} =
                         {d \in StoredDeployments(db) : d.stackID = res'.req.stackID}
                  /\ \A i, j \in 1..Len(ret) :
                         i < j => ret[i].id # ret[j].id /\ ret[i].createdAt <= ret[j].createdAt
      ]_vars

\* C37: a Clone or Pull that returns without error has made an attempt that
\* succeeded (for Pull, one that found the repository already up to date
\* counts as a success), whatever the RetryAttempts of the request and of
\* the configuration are.
C37_SuccessNeedsAttempt ==
    (gres.req.op \in {"clone", "pull"} /\ gres.err = "nil")
        => /\ gres.errs # <<>>
           /\ gres.errs[Len(gres.errs)] = "nil"

(***************************************************************************)
(* Properties of the Git operations of Service.Update                      *)
(***************************************************************************)
\* The stored stack with the given id, as a set of at most one record.
StoredStack(store, id) == {store[k] : k \in {StorageKey(id)} \cap DOMAIN store}

\* C34: a step of an Update whose updater changes the description only
\* starts no clone and no pull, and leaves the status and the last sync of
\* the stored stack as they were, whatever other Updates run meanwhile.
C34_PlainUpdateNoGit ==
    [][\A t \in Tasks :
           (req[t].op = "update" /\ req[t].mut.kind = "description" /\ pc'[t] # pc[t])
               => /\ pc'[t] \notin {"up_clone", "up_pull"}
                  /\ \A a \in StoredStack(db, req[t].stackID),
                        b \in StoredStack(db', req[t].stackID) :
                         a.status = b.status /\ a.lastSync = b.lastSync
      ]_vars

(***************************************************************************)
(* Properties of CreateBranch                                              *)
(***************************************************************************)
\* C31: a CreateBranch that returns without error has created the branch,
\* which GetBranches lists; HEAD names the new branch when the request asked
\* for the checkout, and the branch it named before the call when not.
C31_CreateBranchHead ==
    [][listing'.created.err = "nil"
           => LET rq == listing'.created.req
              IN  /\ rq.Name \in BranchNames(listing'.branches)
                  /\ listing'.head = IF rq.Checkout THEN rq.Name ELSE listing.head
      ]_vars

====
